---- MODULE Spec2Model ----
(***************************************************************************)
(* Model of the fund valuation dashboard src/app.py: the identifier        *)
(* normaliser (normalize_stock_code) and the valuation estimator           *)
(* (calculate_fund_valuation).                                             *)
(*                                                                         *)
(* Strings that the code takes apart character by character (security      *)
(* codes) are sequences of one-character strings.  Floating-point numbers  *)
(* are exact rationals [n, d] in lowest terms with d > 0, so that two      *)
(* numbers are equal exactly when their records are equal.                 *)
(***************************************************************************)
EXTENDS Integers, Sequences, FiniteSets, TLC

VARIABLES
    df_nav,      \* NAV history of the fund as the provider returns it: rows [date, nav]
    today,       \* datetime.now(Asia/Shanghai).date(), a day number
    a_changes,   \* argument a_changes of the last valuation call: normalized code -> percent change
    portfolio,   \* argument portfolio of the last valuation call: list of [code, name, ratio]
    result,      \* what the last valuation call returned (None or a result dict)
    vpc,         \* "ready" before calculate_fund_valuation is called, "returned" after
    raw,         \* the raw code handed to normalize_stock_code
    norm1,       \* normalize_stock_code(raw)
    norm2,       \* normalize_stock_code(norm1)
    npc,         \* how many times the normaliser has been applied: 0, 1, 2; 3 once routed
    tencent_code,  \* to_tencent_code(norm1), <<>> for None and before it is computed
    LAST_A_STOCK_CACHE,  \* the module-level last-known-good quote cache (line 28)
    cache_src,   \* which call wrote the cached price map and the cached change map
    session,     \* per thread: the get_stock_realtime_price_batch call it is running
    quarters,    \* get_fund_portfolio: quarters.unique().tolist(), labels in order of appearance
    latest_quarter,  \* get_fund_portfolio: the label selected at line 448, None before
    qpc,         \* "ready" before the selection of line 448, "selected" after;
                 \* "table" before a whole call of get_fund_portfolio, "returned" after
    df,          \* get_fund_portfolio: the rows of the disclosure table [quarter, ratio, code, name]
    df_latest,   \* the index of df_latest after line 455: row numbers of df, in order
    top_holdings,  \* what get_fund_portfolio returned: list of [code, name, ratio]
    funds_list,  \* fetch_all_funds_data: per fund what its two providers will answer
    future,      \* per fund: its holdings fetch, "queued", "running", "finished", "collected"
    portfolio_map,  \* fund -> holdings, as collected so far
    wanted_codes,   \* normalized codes of the collected holdings
    quote,       \* the quote lookup of this invocation: status, calls made, argument, a_changes
    results,     \* fund -> valuation or None, as computed so far
    fpc,         \* "collect", "quote", "value", "done", "aborted"
    remote_record,  \* the fund list held by the remote store
    local_file,  \* funds.json: whether it exists, and its content
    funds_cache, \* st.session_state.funds_cache: whether it is None, or the list object
                 \* the script works on
    funds_cache_time,  \* st.session_state.funds_cache_time, seconds
    now,         \* datetime.now(), seconds
    degraded,    \* whether funds_cache was loaded by the fallback of load_funds
    save_log     \* the handler the last step ran, if it ran one: what it was given,
                 \* whether its read succeeded, how its save went

valVars == <<df_nav, today, a_changes, portfolio, result, vpc>>
normVars == <<raw, norm1, norm2, npc, tencent_code>>
batchVars == <<LAST_A_STOCK_CACHE, cache_src, session>>
quarterVars == <<quarters, latest_quarter, qpc, df, df_latest, top_holdings>>
fetchVars == <<funds_list, future, portfolio_map, wanted_codes, quote, results, fpc>>

storeVars == <<remote_record, local_file, funds_cache, funds_cache_time, now, degraded, save_log>>

vars == <<valVars, normVars, batchVars, quarterVars, fetchVars, storeVars>>

(***************************************************************************)
(* Bounds of the model.                                                    *)
(***************************************************************************)
MaxDigits == 7      \* most digits in a generated raw code
MaxFree == 3        \* longest raw code drawn freely from the alphabet
MaxHoldings == 2    \* most holdings in a portfolio argument
MaxNavRows == 2     \* most rows in a NAV history
MaxDay == 3         \* days are 1..MaxDay
BatchSize == 1      \* keys per network call; stands for batch_size = 80 (line 338)
MaxRequest == 2     \* most codes in one quote request
MaxCalls == 2       \* most quote calls one thread makes
MaxQuarters == 3    \* most distinct quarter labels in a disclosure table
MaxFunds == 3       \* most funds in funds_list
MaxRows == 2        \* most rows in a disclosure table
TopCount == 1       \* stands for the 10 of head(10), src/app.py:455
MaxClock == 90      \* the clock stops here, seconds
MaxImport == 2      \* most codes in one import text
MaxFundList == 3    \* a handler appends only to a list shorter than this

(***************************************************************************)
(* Python values.                                                          *)
(***************************************************************************)
None == [none |-> TRUE]

\* Python's "not x" for a list, a dict or a string: empty is falsy.
IsEmptySeq(s) == Len(s) = 0
IsEmptyMap(m) == DOMAIN m = {}

(***************************************************************************)
(* Exact rational arithmetic standing for the float arithmetic.            *)
(***************************************************************************)
Abs(i) == IF i < 0 THEN -i ELSE i

RECURSIVE GCD(_, _)
GCD(a, b) == IF b = 0 THEN a ELSE GCD(b, a % b)

Rat(n, d) ==
    LET s == IF d < 0 THEN -1 ELSE 1
        g == GCD(Abs(n), Abs(d))
    IN  [n |-> (s * n) \div g, d |-> (s * d) \div g]

RInt(i) == [n |-> i, d |-> 1]
RAdd(x, y) == Rat(x.n * y.d + y.n * x.d, x.d * y.d)
RSub(x, y) == Rat(x.n * y.d - y.n * x.d, x.d * y.d)
RMul(x, y) == Rat(x.n * y.n, x.d * y.d)
RDiv(x, y) == Rat(x.n * y.d, x.d * y.n)
RGt(x, y) == x.n * y.d > y.n * x.d

(***************************************************************************)
(* normalize_stock_code, src/app.py:165-177.                               *)
(***************************************************************************)
DigitChars == {"0", "1", "2", "3", "4", "5", "6", "7", "8", "9"}
SpaceChars == {" "}

\* str.lower() on one character, for the letters the model's codes use.
LowerChar(c) ==
    CASE c = "H" -> "h"
      [] c = "K" -> "k"
      [] c = "S" -> "s"
      [] c = "Z" -> "z"
      [] c = "Q" -> "q"
      [] OTHER -> c

\* str.strip(): drop leading and trailing whitespace.
RECURSIVE LStrip(_)
LStrip(s) == IF Len(s) > 0 /\ Head(s) \in SpaceChars THEN LStrip(Tail(s)) ELSE s

RECURSIVE RStrip(_)
RStrip(s) ==
    IF Len(s) > 0 /\ s[Len(s)] \in SpaceChars
    THEN RStrip(SubSeq(s, 1, Len(s) - 1))
    ELSE s

Strip(s) == RStrip(LStrip(s))

\* value_str.lower().startswith("hk")
StartsWithHk(s) == Len(s) >= 2 /\ LowerChar(s[1]) = "h" /\ LowerChar(s[2]) = "k"

\* s.startswith(c) for a one-character c
StartsWith(s, c) == Len(s) >= 1 /\ s[1] = c

\* re.sub(r"\D", "", s): keep the digits, in order.
RECURSIVE DigitsOf(_)
DigitsOf(s) ==
    IF Len(s) = 0 THEN <<>>
    ELSE IF Head(s) \in DigitChars THEN <<Head(s)>> \o DigitsOf(Tail(s))
    ELSE DigitsOf(Tail(s))

\* str.zfill(w): left-pad with "0" to width w, never truncating.
RECURSIVE ZFill(_, _)
ZFill(s, w) == IF Len(s) >= w THEN s ELSE ZFill(<<"0">> \o s, w)

\* s[-k:]: the last k characters, or all of s when it is shorter.
LastK(s, k) == IF Len(s) <= k THEN s ELSE SubSeq(s, Len(s) - k + 1, Len(s))

\* A plausible slip in the pad width of the Hong Kong branch.
normalize_stock_code_pad7(value) ==
    LET value_str == Strip(value)
        digits == DigitsOf(value_str)
    IN  IF IsEmptySeq(value_str) THEN <<>>
        ELSE IF StartsWithHk(value_str)
             THEN (IF IsEmptySeq(digits) THEN <<>> ELSE ZFill(digits, 7))
        ELSE IF Len(digits) >= 6 THEN LastK(digits, 6)
        ELSE digits

\* A plausible slip in the slice: one character too many is kept.
normalize_stock_code_slice7(value) ==
    LET value_str == Strip(value)
        digits == DigitsOf(value_str)
    IN  IF IsEmptySeq(value_str) THEN <<>>
        ELSE IF StartsWithHk(value_str)
             THEN (IF IsEmptySeq(digits) THEN <<>> ELSE ZFill(digits, 5))
        ELSE IF Len(digits) >= 6 THEN LastK(digits, 7)
        ELSE digits

normalize_stock_code(value) ==
    LET value_str == Strip(value)
        digits == DigitsOf(value_str)
    IN  IF IsEmptySeq(value_str) THEN <<>>
        ELSE IF StartsWithHk(value_str)
             THEN (IF IsEmptySeq(digits) THEN <<>> ELSE ZFill(digits, 5))
        ELSE IF Len(digits) >= 6 THEN LastK(digits, 6)
        ELSE IF Len(digits) = 5 /\ StartsWith(digits, "0") THEN digits
        ELSE digits

(***************************************************************************)
(* calculate_fund_valuation, src/app.py:641-773.                           *)
(*                                                                         *)
(* The function reads the NAV history from the provider (df_nav) and the   *)
(* clock (now); both are parameters here.  a_prices is never read by the   *)
(* code and is left out.  The only call site (line 823-829) always passes  *)
(* a list as portfolio, so the fetch of lines 712-713 does not run.        *)
(***************************************************************************)
Zero == RInt(0)
Hundred == RInt(100)

\* df_nav.iloc[-1] and df_nav.iloc[-2]
LastRow(nav) == nav[Len(nav)]
PrevRow(nav) == nav[Len(nav) - 1]

\* lines 657-672: the detail list of the official-NAV case
RECURSIVE build_portfolio_details(_, _)
build_portfolio_details(items, change_map) ==
    IF IsEmptySeq(items) THEN <<>>
    ELSE LET stock == Head(items)
             s_code == normalize_stock_code(stock.code)
             change == IF ~IsEmptySeq(s_code) /\ s_code \in DOMAIN change_map
                       THEN change_map[s_code] ELSE Zero
         IN  <<[name |-> stock.name, change |-> change, ratio |-> stock.ratio]>>
             \o build_portfolio_details(Tail(items), change_map)

\* A plausible slip: the ratio of the two NAVs is not scaled to a percent.
official_change_pct_fraction(nav) ==
    IF Len(nav) >= 2
    THEN LET prev_nav == nav[Len(nav) - 1].nav
         IN  IF RGt(prev_nav, Zero)
             THEN RSub(RDiv(nav[Len(nav)].nav, prev_nav), RInt(1))
             ELSE Zero
    ELSE Zero

\* lines 676-683
official_change_pct(nav) ==
    IF Len(nav) >= 2
    THEN LET prev_nav == PrevRow(nav).nav
         IN  IF RGt(prev_nav, Zero)
             THEN RMul(RSub(RDiv(LastRow(nav).nav, prev_nav), RInt(1)), Hundred)
             ELSE Zero
    ELSE Zero

\* lines 734-741: the live change the estimate loop resolves for one holding
live_change(stock, changes) ==
    LET s_code == normalize_stock_code(stock.code)
    IN  IF s_code \in DOMAIN changes THEN changes[s_code] ELSE Zero

\* lines 729-751: the loop over the holdings, as [sum, total, details]
RECURSIVE accumulate(_, _, _)
accumulate(items, changes, acc) ==
    IF IsEmptySeq(items) THEN acc
    ELSE LET stock == Head(items)
             change == live_change(stock, changes)
         IN  accumulate(Tail(items), changes,
                 [weighted_change_sum |-> RAdd(acc.weighted_change_sum, RMul(change, stock.ratio)),
                  total_ratio |-> RAdd(acc.total_ratio, stock.ratio),
                  portfolio_details |-> Append(acc.portfolio_details,
                      [name |-> stock.name, change |-> change, ratio |-> stock.ratio])])

\* The superseded variant the docstring of line 645 still describes: the sum is
\* divided by the disclosed ratios instead of by 100.
estimated_change_by_ratio(weighted_change_sum, total_ratio) ==
    IF total_ratio = Zero THEN Zero ELSE RDiv(weighted_change_sum, total_ratio)

\* line 755
estimated_change(weighted_change_sum, total_ratio) ==
    RDiv(weighted_change_sum, Hundred)

\* A plausible slip: the percent is applied as a fraction.
estimated_price_no_percent(last_nav, estimated_change_pct) ==
    RMul(last_nav, RAdd(RInt(1), estimated_change_pct))

\* line 757
estimated_price(last_nav, estimated_change_pct) ==
    RMul(last_nav, RAdd(RInt(1), RDiv(estimated_change_pct, Hundred)))

\* A plausible slip: the official case reports the live estimate of the holdings.
official_result_live(fund_code, fund_name, changes, items, nav) ==
    LET acc == accumulate(items, changes,
                   [weighted_change_sum |-> Zero, total_ratio |-> Zero, portfolio_details |-> <<>>])
        pct == IF IsEmptySeq(items) THEN official_change_pct(nav)
               ELSE estimated_change(acc.weighted_change_sum, acc.total_ratio)
    IN  [code |-> fund_code, name |-> fund_name,
         current_price |-> estimated_price(LastRow(nav).nav, pct),
         change_pct |-> pct,
         nav_date |-> LastRow(nav).date,
         update_time |-> "official",
         is_estimated |-> FALSE,
         portfolio |-> build_portfolio_details(items, changes),
         last_nav |-> LastRow(nav).nav]

\* lines 675-696: today's official NAV is already published
official_result(fund_code, fund_name, changes, items, nav) ==
    [code |-> fund_code, name |-> fund_name,
     current_price |-> LastRow(nav).nav,
     change_pct |-> official_change_pct(nav),
     nav_date |-> LastRow(nav).date,
     update_time |-> "official",
     is_estimated |-> FALSE,
     portfolio |-> IF ~IsEmptySeq(items) THEN build_portfolio_details(items, changes) ELSE <<>>,
     last_nav |-> LastRow(nav).nav]

\* lines 698-709: no live quotes
no_live_result(fund_code, fund_name, nav) ==
    [code |-> fund_code, name |-> fund_name,
     current_price |-> LastRow(nav).nav,
     change_pct |-> Zero,
     nav_date |-> LastRow(nav).date,
     update_time |-> "no_live_data",
     is_estimated |-> FALSE,
     portfolio |-> <<>>,
     last_nav |-> LastRow(nav).nav]

\* lines 715-726: no holdings (this dict has no last_nav key)
no_holdings_result(fund_code, fund_name, nav) ==
    [code |-> fund_code, name |-> fund_name,
     current_price |-> LastRow(nav).nav,
     change_pct |-> Zero,
     nav_date |-> LastRow(nav).date,
     update_time |-> "no_holdings_data",
     is_estimated |-> FALSE,
     portfolio |-> <<>>]

\* lines 728-769: the weighted estimate
estimated_result(fund_code, fund_name, changes, items, nav) ==
    LET acc == accumulate(items, changes,
                   [weighted_change_sum |-> Zero, total_ratio |-> Zero, portfolio_details |-> <<>>])
        estimated_change_pct == estimated_change(acc.weighted_change_sum, acc.total_ratio)
    IN  [code |-> fund_code, name |-> fund_name,
         current_price |-> estimated_price(LastRow(nav).nav, estimated_change_pct),
         change_pct |-> estimated_change_pct,
         nav_date |-> LastRow(nav).date,
         update_time |-> "estimated",
         is_estimated |-> TRUE,
         portfolio |-> acc.portfolio_details,
         last_nav |-> LastRow(nav).nav]

\* A plausible slip: the holdings are tested before the live quotes.
calculate_fund_valuation_holdings_first(fund_code, fund_name, changes, items, nav, now_date) ==
    IF IsEmptySeq(nav) THEN None
    ELSE IF LastRow(nav).date = now_date
         THEN official_result(fund_code, fund_name, changes, items, nav)
    ELSE IF IsEmptySeq(items) THEN no_holdings_result(fund_code, fund_name, nav)
    ELSE IF IsEmptyMap(changes) THEN no_live_result(fund_code, fund_name, nav)
    ELSE estimated_result(fund_code, fund_name, changes, items, nav)

\* A plausible slip: the test for empty holdings is missing.
calculate_fund_valuation_no_holdings_test(fund_code, fund_name, changes, items, nav, now_date) ==
    IF IsEmptySeq(nav) THEN None
    ELSE IF LastRow(nav).date = now_date
         THEN official_result(fund_code, fund_name, changes, items, nav)
    ELSE IF IsEmptyMap(changes) THEN no_live_result(fund_code, fund_name, nav)
    ELSE estimated_result(fund_code, fund_name, changes, items, nav)

\* lines 647-773
calculate_fund_valuation(fund_code, fund_name, changes, items, nav, now_date) ==
    IF IsEmptySeq(nav) THEN None
    ELSE IF LastRow(nav).date = now_date
         THEN official_result(fund_code, fund_name, changes, items, nav)
    ELSE IF IsEmptyMap(changes) THEN no_live_result(fund_code, fund_name, nav)
    ELSE IF IsEmptySeq(items) THEN no_holdings_result(fund_code, fund_name, nav)
    ELSE estimated_result(fund_code, fund_name, changes, items, nav)

(***************************************************************************)
(* Input domains.                                                          *)
(***************************************************************************)
SeqsUpTo(S, n) == UNION {[1..k -> S] : k \in 0..n}

Days == 1..MaxDay

\* NAVs in thousandths: 0 (not positive), 1.960 and 2.000
NavValues == {Rat(0, 1000), Rat(1960, 1000), Rat(2000, 1000)}

\* Histories with one row per day, the last row on day d.
NavHistory(navs, d) ==
    [i \in 1..Len(navs) |-> [date |-> d - (Len(navs) - i), nav |-> navs[i]]]

NavHistories == {NavHistory(navs, d) : navs \in SeqsUpTo(NavValues, MaxNavRows), d \in Days}

Code600519 == <<"6", "0", "0", "5", "1", "9">>
Code00700 == <<"0", "0", "7", "0", "0">>
CodeEmpty == <<>>

\* Holdings as get_fund_portfolio emits them: digits only, or no code at all.
Holding1 == [code |-> Code600519, name |-> "Moutai", ratio |-> RInt(5)]
Holding2 == [code |-> Code00700, name |-> "Tencent HK", ratio |-> RInt(3)]
Holding3 == [code |-> CodeEmpty, name |-> "Unlisted", ratio |-> RInt(5)]

HoldingChoices == {Holding1, Holding2, Holding3}
Portfolios == SeqsUpTo(HoldingChoices, MaxHoldings)

QuoteKeys == {Code600519, Code00700, CodeEmpty}
Changes == {RInt(10), RInt(-2)}
ChangeMaps == UNION {[K -> Changes] : K \in SUBSET QuoteKeys}
EmptyMap == [k \in {} |-> Zero]

FundCode == "F000001"
FundName == "Fund"

(***************************************************************************)
(* The valuation specification: the provider's NAV history and the clock   *)
(* are the state the call finds, the quotes and the holdings its arguments.*)
(***************************************************************************)
NormIdle == raw = <<>> /\ norm1 = <<>> /\ norm2 = <<>> /\ npc = 0 /\ tencent_code = <<>>

\* The quote threads: sessions of the dashboard that may call the quote lookup.
Threads == {1, 2}

\* line 28: LAST_A_STOCK_CACHE as the module sets it; update_time None is 0
EmptyCache == [price_map |-> EmptyMap, change_map |-> EmptyMap, update_time |-> 0]

NoCall == <<0, 0>>

\* A thread that is not inside get_stock_realtime_price_batch.
IdleSession ==
    [pc |-> "idle", calls |-> 0, stock_codes |-> {}, wanted |-> {},
     tencent_codes |-> <<>>, code_map |-> EmptyMap, i |-> 1,
     price_map |-> EmptyMap, change_map |-> EmptyMap,
     sent |-> <<>>, kinds |-> <<>>, mode |-> "none",
     raised |-> FALSE, fresh |-> FALSE, returned |-> None,
     before |-> EmptyCache, saw_price_by |-> NoCall, saw_change_by |-> NoCall]

BatchIdle ==
    /\ LAST_A_STOCK_CACHE = EmptyCache
    /\ cache_src = [price |-> NoCall, change |-> NoCall]
    /\ session = [t \in Threads |-> IdleSession]

QuarterIdle ==
    /\ quarters = <<>> /\ latest_quarter = None /\ qpc = "idle"
    /\ df = <<>> /\ df_latest = <<>> /\ top_holdings = <<>>

\* lines 781-783 and 812: the locals of fetch_all_funds_data as it starts
FetchIdle ==
    /\ funds_list = <<>>
    /\ future = <<>>
    /\ portfolio_map = EmptyMap
    /\ wanted_codes = {}
    /\ quote = [status |-> "pending", calls |-> 0, arg |-> {}, a_changes |-> EmptyMap]
    /\ results = EmptyMap
    /\ fpc = "idle"

\* the fund list store before the script has run
NoSave ==
    [handler |-> "none", arg |-> <<>>, read_ok |-> TRUE, saved |-> "none", fallback |-> FALSE]
StoreIdle ==
    /\ remote_record = <<>>
    /\ local_file = [exists |-> FALSE, content |-> <<>>]
    /\ funds_cache = [none |-> TRUE, list |-> <<>>]
    /\ funds_cache_time = 0 /\ now = 0 /\ degraded = FALSE /\ save_log = NoSave

ValInit ==
    /\ df_nav \in NavHistories
    /\ today \in Days
    /\ a_changes = EmptyMap
    /\ portfolio = <<>>
    /\ result = None
    /\ vpc = "ready"
    /\ NormIdle
    /\ BatchIdle
    /\ QuarterIdle
    /\ FetchIdle
    /\ StoreIdle

Calculate ==
    /\ vpc = "ready"
    /\ \E ch \in ChangeMaps, pf \in Portfolios :
          /\ a_changes' = ch
          /\ portfolio' = pf
          /\ result' = calculate_fund_valuation(FundCode, FundName, ch, pf, df_nav, today)
    /\ vpc' = "returned"
    /\ UNCHANGED <<df_nav, today, normVars, batchVars, quarterVars, fetchVars, storeVars>>

ValNext == Calculate

ValSpec == ValInit /\ [][ValNext]_vars

(***************************************************************************)
(* The normaliser specification: normalize_stock_code applied to a raw     *)
(* code, and then to its own output.                                       *)
(***************************************************************************)
DigitAlphabet == {"0", "6"}
DigitStrings == SeqsUpTo(DigitAlphabet, MaxDigits)
Prefixes == {<<>>, <<"h", "k">>, <<"H", "K">>, <<" ", "h", "K">>, <<"s", "h">>}
Suffixes == {<<>>, <<".", "H", "K">>, <<" ">>}
FreeAlphabet == {"h", "K", "0", "6", " ", "."}
FreeCodes == SeqsUpTo(FreeAlphabet, MaxFree)

RawCodes == {p \o d \o s : p \in Prefixes, d \in DigitStrings, s \in Suffixes} \cup FreeCodes

ValIdle ==
    /\ df_nav = <<>>
    /\ today = 1
    /\ a_changes = EmptyMap
    /\ portfolio = <<>>
    /\ result = None
    /\ vpc = "idle"

NormInit ==
    /\ raw \in RawCodes
    /\ norm1 = <<>>
    /\ norm2 = <<>>
    /\ npc = 0
    /\ tencent_code = <<>>
    /\ ValIdle
    /\ BatchIdle
    /\ QuarterIdle
    /\ FetchIdle
    /\ StoreIdle

NormalizeOnce ==
    /\ npc = 0
    /\ norm1' = normalize_stock_code(raw)
    /\ npc' = 1
    /\ UNCHANGED <<raw, norm2, tencent_code, valVars, batchVars, quarterVars, fetchVars, storeVars>>

NormalizeAgain ==
    /\ npc = 1
    /\ norm2' = normalize_stock_code(norm1)
    /\ npc' = 2
    /\ UNCHANGED <<raw, norm1, tencent_code, valVars, batchVars, quarterVars, fetchVars, storeVars>>

NormNext == NormalizeOnce \/ NormalizeAgain

NormSpec == NormInit /\ [][NormNext]_vars

(***************************************************************************)
(* Properties of calculate_fund_valuation, checked under ValSpec.          *)
(***************************************************************************)
Returned == vpc = "returned"
HasNav == ~IsEmptySeq(df_nav)
LastNav == df_nav[Len(df_nav)].nav
LastNavDate == df_nav[Len(df_nav)].date
NavToday == LastNavDate = today

\* The live change of holding i as the claims word it: the change the map holds
\* for the holding's normalized code, 0 when the map has no such key.
ChangeOfHolding(i) ==
    LET key == normalize_stock_code(portfolio[i].code)
    IN  IF key \in DOMAIN a_changes THEN a_changes[key] ELSE Zero

\* sum over the holdings 1..i of change x ratio
RECURSIVE WeightedSumUpTo(_)
WeightedSumUpTo(i) ==
    IF i = 0 THEN Zero
    ELSE RAdd(WeightedSumUpTo(i - 1), RMul(ChangeOfHolding(i), portfolio[i].ratio))

\* last_nav * (1 + change_pct / 100) of a result
PriceFromChange(r) == RMul(LastNav, RAdd(RInt(1), RDiv(r.change_pct, Hundred)))

\* (lastNav / priorNav - 1) * 100 when a prior NAV row exists and is > 0, else 0
OfficialChange ==
    IF Len(df_nav) >= 2 /\ df_nav[Len(df_nav) - 1].nav.n > 0
    THEN LET l == LastNav
             q == df_nav[Len(df_nav) - 1].nav
         IN  Rat((l.n * q.d - q.n * l.d) * 100, q.n * l.d)
    ELSE Zero

TenAndMinusTwo ==
    [k \in {Code600519, Code00700} |-> IF k = Code600519 THEN RInt(10) ELSE RInt(-2)]

C2_EstimatedPriceMatchesChange ==
    (Returned /\ result # None /\ result.is_estimated)
        => result.current_price = PriceFromChange(result)

C2_Witness ==
    /\ Returned /\ result # None /\ result.is_estimated
    /\ result.change_pct = Rat(44, 100)
    /\ LastNav = Rat(2000, 1000)
    /\ result.current_price = Rat(20088, 10000)

\* C3 as stated: every non-null result, the official one included, has
\* current_price = last_nav * (1 + change_pct / 100).
C3_PriceMatchesChangeInEveryCase ==
    (Returned /\ result # None) => result.current_price = PriceFromChange(result)

\* C3 as amended: the equation holds in the no-live-data, no-holdings and
\* estimated cases; in the official case current_price is the last NAV itself,
\* so the equation holds there exactly when change_pct = 0 or the last NAV is 0.
C3_PriceMatchesChangeOutsideOfficial ==
    (Returned /\ result # None)
        => IF NavToday
           THEN /\ result.current_price = LastNav
                /\ (result.current_price = PriceFromChange(result))
                       <=> (result.change_pct = Zero \/ LastNav = Zero)
           ELSE result.current_price = PriceFromChange(result)

C3_Witness ==
    /\ Returned /\ result # None /\ NavToday
    /\ result.change_pct = Rat(100, 49)
    /\ result.current_price = Rat(2000, 1000)
    /\ result.current_price # PriceFromChange(result)

\* C4: when the last NAV date is today the result is not estimated, its price
\* is the last NAV and its change_pct is (lastNav / priorNav - 1) * 100 (0
\* without a positive prior NAV), whatever the change map and the holdings.
C4_OfficialNavWins ==
    (Returned /\ HasNav /\ NavToday)
        => /\ result # None
           /\ result.is_estimated = FALSE
           /\ result.current_price = LastNav
           /\ result.change_pct = OfficialChange

\* The example of the specification, 2.000 after 1.960, with live quotes and
\* holdings supplied.
C4_Witness ==
    /\ Returned /\ HasNav /\ NavToday
    /\ Len(df_nav) = 2 /\ df_nav[1].nav = Rat(1960, 1000) /\ LastNav = Rat(2000, 1000)
    /\ portfolio = <<Holding1, Holding2>>
    /\ a_changes = TenAndMinusTwo
    /\ result.change_pct = Rat(100, 49)
    /\ result.is_estimated = FALSE

\* C5: the outcome is that of the first case that applies: no NAV history,
\* NAV of today, empty change map, empty holdings, weighted estimate.
C5_FirstCaseDecides ==
    Returned =>
        IF ~HasNav THEN result = None
        ELSE /\ result # None
             /\ IF NavToday
                THEN result.update_time = "official" /\ ~result.is_estimated
                ELSE IF IsEmptyMap(a_changes)
                THEN /\ result.update_time = "no_live_data"
                     /\ ~result.is_estimated
                     /\ result.change_pct = Zero
                     /\ result.current_price = LastNav
                ELSE IF IsEmptySeq(portfolio)
                THEN /\ result.update_time = "no_holdings_data"
                     /\ ~result.is_estimated
                     /\ result.change_pct = Zero
                     /\ result.current_price = LastNav
                ELSE result.update_time = "estimated" /\ result.is_estimated

\* Empty change map and empty holdings on a past NAV date: 'no live data'.
C5_Witness ==
    /\ Returned /\ HasNav /\ ~NavToday
    /\ IsEmptyMap(a_changes) /\ IsEmptySeq(portfolio)
    /\ result.update_time = "no_live_data"

\* C6 as stated: with a NAV history and no holdings the result is non-null,
\* not estimated, with change_pct = 0 and the last NAV as price, whatever the
\* NAV date.
C6_NoHoldingsMeansZeroChange ==
    (Returned /\ HasNav /\ IsEmptySeq(portfolio))
        => /\ result # None
           /\ result.is_estimated = FALSE
           /\ result.change_pct = Zero
           /\ result.current_price = LastNav

\* C6 as amended: with a NAV history and no holdings the result is non-null,
\* not estimated and priced at the last NAV; change_pct is 0 when the NAV date
\* is not today, and the official change of the last two NAVs when it is.
C6_NoHoldingsDegrades ==
    (Returned /\ HasNav /\ IsEmptySeq(portfolio))
        => /\ result # None
           /\ result.is_estimated = FALSE
           /\ result.current_price = LastNav
           /\ result.change_pct = IF NavToday THEN OfficialChange ELSE Zero

C6_Witness ==
    /\ Returned /\ HasNav /\ IsEmptySeq(portfolio) /\ ~NavToday
    /\ ~IsEmptyMap(a_changes)
    /\ result.update_time = "no_holdings_data"
    /\ result.change_pct = Zero

\* C7: a result is estimated only if today is strictly after the last NAV
\* date; a NAV date equal to or later than today never gives is_estimated.
C7_EstimatedOnlyAfterNavDate ==
    (Returned /\ result # None /\ result.is_estimated) => today > LastNavDate

\* C8: for non-empty holdings the detail list of every non-null result has one
\* entry per holding, in order, with its name, its ratio and its live change
\* (0 when unmatched), also when the change map is empty.  For a holding whose
\* normalized code is empty, 0 and the map's entry for the empty key are both
\* accepted as its live change.
C8_DetailPerHolding ==
    (Returned /\ result # None /\ ~IsEmptySeq(portfolio))
        => /\ Len(result.portfolio) = Len(portfolio)
           /\ \A i \in 1..Len(portfolio) :
                 /\ result.portfolio[i].name = portfolio[i].name
                 /\ result.portfolio[i].ratio = portfolio[i].ratio
                 /\ \/ result.portfolio[i].change = ChangeOfHolding(i)
                    \/ /\ IsEmptySeq(normalize_stock_code(portfolio[i].code))
                       /\ result.portfolio[i].change = Zero

(***************************************************************************)
(* Properties of normalize_stock_code, checked under NormSpec.             *)
(***************************************************************************)
\* the input carries the 'hk' prefix
RawIsHk == StartsWithHk(Strip(raw))
RawDigits == Len(DigitsOf(raw))

\* C9 as stated: normalising a normalised code changes nothing, for every input.
C9_Idempotent ==
    npc = 2 => norm2 = norm1

\* C9 as amended: normalising a normalised code changes nothing, except for
\* an 'hk' input with 7 or more digits: its first result keeps all the digits
\* and the second keeps the last 6 of them.
C9_IdempotentButLongHk ==
    npc = 2 =>
        IF RawIsHk /\ RawDigits >= 7
        THEN norm2 = LastK(norm1, 6) /\ norm2 # norm1
        ELSE norm2 = norm1

C9_Witness ==
    /\ npc = 2
    /\ raw = <<"h", "k", "6", "0", "0">>
    /\ norm1 = <<"0", "0", "6", "0", "0">>
    /\ norm2 = norm1

\* C10 as stated: a non-empty output has exactly 5 digits for an 'hk' input
\* and exactly 6 digits for any other input.
C10_FixedWidth ==
    (npc >= 1 /\ ~IsEmptySeq(norm1)) => Len(norm1) = IF RawIsHk THEN 5 ELSE 6

\* C10 as amended: a non-empty output is a digit string; it has exactly 5
\* digits for an 'hk' input of at most 5 digits and exactly 6 digits for
\* another input of at least 6 digits; an 'hk' input of more than 5 digits
\* and another input of fewer than 6 digits give all their digits unchanged.
C10_WidthByDigitCount ==
    (npc >= 1 /\ ~IsEmptySeq(norm1)) =>
        /\ \A i \in 1..Len(norm1) : norm1[i] \in DigitChars
        /\ IF RawIsHk
           THEN IF RawDigits <= 5 THEN Len(norm1) = 5 ELSE norm1 = DigitsOf(raw)
           ELSE IF RawDigits >= 6 THEN Len(norm1) = 6 ELSE norm1 = DigitsOf(raw)

C10_Witness ==
    /\ npc >= 1
    /\ raw = <<"s", "h", "6", "0", "0", "0", "0", "6", "0">>
    /\ norm1 = <<"0", "0", "0", "0", "6", "0">>

(***************************************************************************)
(* get_stock_realtime_price_batch, src/app.py:296-399.                     *)
(*                                                                         *)
(* One thread runs one call at a time; a call is a sequence of steps, one  *)
(* per network request and one per read or write of LAST_A_STOCK_CACHE, so *)
(* that calls of different threads interleave where Python lets them.      *)
(* The caller always passes a list (line 815); its elements are the set    *)
(* stock_codes here.                                                       *)
(***************************************************************************)

\* lines 312-321; None is the empty key
to_tencent_code(code) ==
    IF Len(code) = 5 /\ StartsWith(code, "0") THEN <<"h", "k">> \o code
    ELSE IF StartsWith(code, "6") THEN <<"s", "h">> \o code
    ELSE IF StartsWith(code, "0") \/ StartsWith(code, "3") THEN <<"s", "z">> \o code
    ELSE IF StartsWith(code, "8") \/ StartsWith(code, "4") \/ StartsWith(code, "9")
         THEN <<"b", "j">> \o code
    ELSE <<>>

\* lines 306-310
wanted_of(stock_codes) == {normalize_stock_code(c) : c \in stock_codes} \ {<<>>}

\* A plausible slip: codes without a venue route are kept (line 324 missing).
routable_of_all(wanted) == wanted

\* lines 323-324: the wanted codes that have a venue route
routable_of(wanted) == {c \in wanted : to_tencent_code(c) # <<>>}

\* A list over a set iterates it in an order the code does not fix.
Perms(S) ==
    {f \in [1..Cardinality(S) -> S] : \A i, j \in 1..Cardinality(S) : i # j => f[i] # f[j]}

\* line 326
code_map_of(routable) ==
    [t \in {to_tencent_code(c) : c \in routable} |->
        CHOOSE c \in routable : to_tencent_code(c) = t]

\* pd.to_numeric(..., errors="coerce") of a non-numeric field, and of a missing one
NaN == [nan |-> TRUE]

MapPut(m, k, v) == [x \in DOMAIN m \cup {k} |-> IF x = k THEN v ELSE m[x]]
Restrict(m, keys) == [x \in DOMAIN m \cap keys |-> m[x]]

Min(a, b) == IF a < b THEN a ELSE b

\* A plausible slip: the key is cut from the provider's key, whatever the venue.
code_key_of_last6(code_with_prefix, code_map) == LastK(code_with_prefix, 6)

\* lines 376-381: the key a record is stored under
code_key_of(code_with_prefix, code_map) ==
    LET code_key == IF code_with_prefix \in DOMAIN code_map
                    THEN code_map[code_with_prefix] ELSE <<>>
    IN  IF ~IsEmptySeq(code_key) THEN code_key
        ELSE IF StartsWith(code_with_prefix, "h") /\ StartsWith(Tail(code_with_prefix), "k")
             THEN SubSeq(code_with_prefix, 3, Len(code_with_prefix))
        ELSE LastK(code_with_prefix, 6)

\* lines 355-385: one record of the response, applied to the two local maps.
\* A line is [wellformed, code_with_prefix, n, latest, prev_close, pct]: whether
\* it has "=" and "v_", its key, how many ~-fields it has, and fields 3, 4, 32.
parse_line(line, code_map, maps) ==
    IF ~line.wellformed THEN maps
    ELSE IF line.n = 0 THEN maps
    ELSE IF line.n < 5 THEN maps
    ELSE LET latest == IF line.latest = NaN THEN Zero ELSE line.latest
             prev_close == IF line.prev_close = NaN THEN Zero ELSE line.prev_close
             given == IF line.n > 32 THEN line.pct ELSE NaN
             change_pct ==
                 IF given = NaN
                 THEN IF RGt(prev_close, Zero)
                      THEN RMul(RDiv(RSub(latest, prev_close), prev_close), Hundred)
                      ELSE Zero
                 ELSE given
             code_key == code_key_of(line.code_with_prefix, code_map)
         IN  [price_map |-> MapPut(maps.price_map, code_key, latest),
              change_map |-> MapPut(maps.change_map, code_key, change_pct)]

\* lines 353-385
RECURSIVE parse_lines(_, _, _)
parse_lines(lines, code_map, maps) ==
    IF IsEmptySeq(lines) THEN maps
    ELSE parse_lines(Tail(lines), code_map, parse_line(Head(lines), code_map, maps))

\* A plausible slip: the request is not guarded, so its exception escapes.
process_chunk_unguarded(resp, code_map, maps) ==
    IF resp.status = "exception"
    THEN [price_map |-> maps.price_map, change_map |-> maps.change_map, raised |-> TRUE]
    ELSE LET m == parse_lines(resp.lines, code_map, maps)
         IN  [price_map |-> m.price_map, change_map |-> m.change_map, raised |-> FALSE]

\* lines 343-385: one pass of the loop body; an exception of the request is
\* caught (line 347) and an empty body skipped (line 351)
process_chunk(resp, code_map, maps) ==
    IF resp.status = "exception"
    THEN [price_map |-> maps.price_map, change_map |-> maps.change_map, raised |-> FALSE]
    ELSE IF IsEmptySeq(resp.lines)
    THEN [price_map |-> maps.price_map, change_map |-> maps.change_map, raised |-> FALSE]
    ELSE LET m == parse_lines(resp.lines, code_map, maps)
         IN  [price_map |-> m.price_map, change_map |-> m.change_map, raised |-> FALSE]

\* A plausible slip: a failed request ends the loop (break instead of continue).
next_chunk_start_break(i, resp, n) ==
    IF resp.status = "exception" THEN n + 1 ELSE i + BatchSize

\* line 340: range(0, len(tencent_codes), batch_size), 1-based; n is the length
next_chunk_start(i, resp, n) == i + BatchSize

\* A plausible slip: the cache is written whatever the loop collected.
has_fresh_always(price_map, change_map) == TRUE

\* line 387: if price_map and change_map
has_fresh(price_map, change_map) == ~IsEmptyMap(price_map) /\ ~IsEmptyMap(change_map)

\* lines 303, 331-333, 396-398: what a call answers from the maps it read from
\* the cache; only the empty-request return of line 303 is not filtered
fallback_result(mode, wanted, price_map, change_map) ==
    IF mode = "whole"
    THEN [price_map |-> price_map, change_map |-> change_map]
    ELSE [price_map |-> Restrict(price_map, wanted),
          change_map |-> Restrict(change_map, wanted)]

NoMaps == [price_map |-> EmptyMap, change_map |-> EmptyMap]

(***************************************************************************)
(* The quote provider: what qt.gtimg.cn answers to one request.            *)
(***************************************************************************)
\* The record of one requested key: 600519 has no field 32 (the change is
\* derived from the two prices), 00700 carries its change, any other key has
\* non-numeric prices.
MarketLine(t) ==
    IF t = <<"s", "h", "6", "0", "0", "5", "1", "9">>
    THEN [wellformed |-> TRUE, code_with_prefix |-> t, n |-> 5,
          latest |-> RInt(110), prev_close |-> RInt(100), pct |-> NaN]
    ELSE IF t = <<"h", "k", "0", "0", "7", "0", "0">>
    THEN [wellformed |-> TRUE, code_with_prefix |-> t, n |-> 33,
          latest |-> RInt(98), prev_close |-> RInt(100), pct |-> RInt(-2)]
    ELSE [wellformed |-> TRUE, code_with_prefix |-> t, n |-> 33,
          latest |-> NaN, prev_close |-> NaN, pct |-> NaN]

\* v_pv_none_match="1": the provider's answer for a key it does not know
NoMatchLine ==
    [wellformed |-> TRUE,
     code_with_prefix |-> <<"n", "o", "n", "e", "_", "m", "a", "t", "c", "h">>, n |-> 1,
     latest |-> NaN, prev_close |-> NaN, pct |-> NaN]

\* A record whose key is the bare venue prefix, with five fields.
PrefixOnlyLine ==
    [wellformed |-> TRUE, code_with_prefix |-> <<"h", "k">>, n |-> 5,
     latest |-> RInt(7), prev_close |-> RInt(7), pct |-> NaN]

ResponseKinds == {"fail", "empty", "ok", "short", "junk"}

\* The response to a request for the keys of batch.
Respond(kind, batch) ==
    CASE kind = "fail" -> [status |-> "exception", lines |-> <<>>]
      [] kind = "empty" -> [status |-> "text", lines |-> <<>>]
      [] kind = "ok" -> [status |-> "text", lines |-> [i \in 1..Len(batch) |-> MarketLine(batch[i])]]
      [] kind = "short" -> [status |-> "text", lines |-> [i \in 1..Len(batch) |-> NoMatchLine]]
      [] kind = "junk" ->
            [status |-> "text",
             lines |-> [i \in 1..Len(batch) |-> MarketLine(batch[i])] \o <<PrefixOnlyLine>>]

\* Raw codes a request is made of.
\* sh600519 and hk700 have a quote, 000001 is known to the provider without
\* prices, 123456 has no venue, a blank normalizes to "".
RequestPool ==
    {<<"s", "h", "6", "0", "0", "5", "1", "9">>, <<"h", "k", "7", "0", "0">>,
     <<"0", "0", "0", "0", "0", "1">>,
     <<"1", "2", "3", "4", "5", "6">>, <<" ">>}
Requests == {r \in SUBSET RequestPool : Cardinality(r) <= MaxRequest}


(***************************************************************************)
(* The steps of a call.                                                    *)
(***************************************************************************)
SetSession(t, rec) == session' = [session EXCEPT ![t] = rec]

\* lines 297-334: entry, up to the first network request or cache read
Call(t, reqs) ==
    /\ session[t].pc \in {"ready", "done"}
    /\ session[t].calls < MaxCalls
    /\ \E codes \in reqs :
          LET wanted == wanted_of(codes)
              routable == routable_of(wanted)
              base == [IdleSession EXCEPT !.calls = session[t].calls + 1,
                                          !.stock_codes = codes,
                                          !.before = LAST_A_STOCK_CACHE]
          IN  IF codes = {}
              THEN SetSession(t, [base EXCEPT !.pc = "chk_price", !.mode = "whole"])
              ELSE IF routable = {}
              THEN SetSession(t, [base EXCEPT !.pc = "chk_price", !.mode = "filtered",
                                              !.wanted = wanted])
              ELSE \E ord \in Perms(routable) :
                      SetSession(t, [base EXCEPT
                          !.pc = "loop", !.mode = "filtered", !.wanted = wanted,
                          !.tencent_codes = [i \in 1..Len(ord) |-> to_tencent_code(ord[i])],
                          !.code_map = code_map_of(routable)])
    /\ UNCHANGED <<LAST_A_STOCK_CACHE, cache_src, valVars, normVars, quarterVars, fetchVars, storeVars>>

\* lines 340-387: one network request and the parsing of its answer
FetchChunk(t, kinds) ==
    /\ session[t].pc = "loop"
    /\ \E kind \in kinds :
          LET me == session[t]
              n == Len(me.tencent_codes)
              batch == SubSeq(me.tencent_codes, me.i, Min(me.i + BatchSize - 1, n))
              resp == Respond(kind, batch)
              got == process_chunk(resp, me.code_map,
                         [price_map |-> me.price_map, change_map |-> me.change_map])
              ni == next_chunk_start(me.i, resp, n)
              seen == [me EXCEPT !.sent = Append(me.sent, batch),
                                 !.kinds = Append(me.kinds, kind),
                                 !.price_map = got.price_map,
                                 !.change_map = got.change_map,
                                 !.i = ni]
          IN  IF got.raised
              THEN SetSession(t, [seen EXCEPT !.pc = "done", !.raised = TRUE])
              ELSE IF ni <= n THEN SetSession(t, seen)
              ELSE IF has_fresh(got.price_map, got.change_map)
              THEN SetSession(t, [seen EXCEPT !.pc = "wr_price"])
              ELSE SetSession(t, [seen EXCEPT !.pc = "chk_price"])
    /\ UNCHANGED <<LAST_A_STOCK_CACHE, cache_src, valVars, normVars, quarterVars, fetchVars, storeVars>>

\* line 388
WritePrice(t) ==
    /\ session[t].pc = "wr_price"
    /\ LAST_A_STOCK_CACHE' = [LAST_A_STOCK_CACHE EXCEPT !.price_map = session[t].price_map]
    /\ cache_src' = [cache_src EXCEPT !.price = <<t, session[t].calls>>]
    /\ SetSession(t, [session[t] EXCEPT !.pc = "wr_change"])
    /\ UNCHANGED <<valVars, normVars, quarterVars, fetchVars, storeVars>>

\* line 389
WriteChange(t) ==
    /\ session[t].pc = "wr_change"
    /\ LAST_A_STOCK_CACHE' = [LAST_A_STOCK_CACHE EXCEPT !.change_map = session[t].change_map]
    /\ cache_src' = [cache_src EXCEPT !.change = <<t, session[t].calls>>]
    /\ SetSession(t, [session[t] EXCEPT !.pc = "wr_time"])
    /\ UNCHANGED <<valVars, normVars, quarterVars, fetchVars, storeVars>>

\* lines 390-391: the timestamp is later than the cached one; the call returns
WriteTime(t) ==
    /\ session[t].pc = "wr_time"
    /\ LAST_A_STOCK_CACHE' =
           [LAST_A_STOCK_CACHE EXCEPT !.update_time = LAST_A_STOCK_CACHE.update_time + 1]
    /\ SetSession(t, [session[t] EXCEPT
           !.pc = "done", !.fresh = TRUE,
           !.returned = [price_map |-> session[t].price_map,
                         change_map |-> session[t].change_map]])
    /\ UNCHANGED <<cache_src, valVars, normVars, quarterVars, fetchVars, storeVars>>

\* lines 302, 328, 393: the first operand of the test of the cache
CheckPrice(t) ==
    /\ session[t].pc = "chk_price"
    /\ IF ~IsEmptyMap(LAST_A_STOCK_CACHE.price_map)
       THEN SetSession(t, [session[t] EXCEPT !.pc = "chk_change"])
       ELSE SetSession(t, [session[t] EXCEPT !.pc = "done", !.returned = NoMaps])
    /\ UNCHANGED <<LAST_A_STOCK_CACHE, cache_src, valVars, normVars, quarterVars, fetchVars, storeVars>>

\* lines 302, 328, 393: the second operand of the test of the cache
CheckChange(t) ==
    /\ session[t].pc = "chk_change"
    /\ IF ~IsEmptyMap(LAST_A_STOCK_CACHE.change_map)
       THEN SetSession(t, [session[t] EXCEPT !.pc = "rd_price"])
       ELSE SetSession(t, [session[t] EXCEPT !.pc = "done", !.returned = NoMaps])
    /\ UNCHANGED <<LAST_A_STOCK_CACHE, cache_src, valVars, normVars, quarterVars, fetchVars, storeVars>>

\* lines 303, 329, 394: the read of the cached price map
ReadPrice(t) ==
    /\ session[t].pc = "rd_price"
    /\ SetSession(t, [session[t] EXCEPT
           !.pc = "rd_change",
           !.price_map = LAST_A_STOCK_CACHE.price_map,
           !.saw_price_by = cache_src.price])
    /\ UNCHANGED <<LAST_A_STOCK_CACHE, cache_src, valVars, normVars, quarterVars, fetchVars, storeVars>>

\* lines 303, 330-333, 395-398: the read of the cached change map, and the return
ReadChange(t) ==
    /\ session[t].pc = "rd_change"
    /\ SetSession(t, [session[t] EXCEPT
           !.pc = "done",
           !.change_map = LAST_A_STOCK_CACHE.change_map,
           !.saw_change_by = cache_src.change,
           !.returned = fallback_result(session[t].mode, session[t].wanted,
                            session[t].price_map, LAST_A_STOCK_CACHE.change_map)])
    /\ UNCHANGED <<LAST_A_STOCK_CACHE, cache_src, valVars, normVars, quarterVars, fetchVars, storeVars>>


\* One thread calls the quote lookup again and again.
BatchInit ==
    /\ LAST_A_STOCK_CACHE = EmptyCache
    /\ cache_src = [price |-> NoCall, change |-> NoCall]
    /\ session = [t \in Threads |-> IF t = 1 THEN [IdleSession EXCEPT !.pc = "ready"] ELSE IdleSession]
    /\ ValIdle
    /\ NormIdle
    /\ QuarterIdle
    /\ FetchIdle
    /\ StoreIdle

BatchNext ==
    \E t \in Threads :
        \/ Call(t, Requests)
        \/ FetchChunk(t, ResponseKinds)
        \/ WritePrice(t)
        \/ WriteChange(t)
        \/ WriteTime(t)
        \/ CheckPrice(t)
        \/ CheckChange(t)
        \/ ReadPrice(t)
        \/ ReadChange(t)

BatchSpec == BatchInit /\ [][BatchNext]_vars

\* Two threads (two sessions of the dashboard) call the quote lookup, each
\* for sh600519 or for hk700; a request fails or is answered.
RaceInit ==
    /\ LAST_A_STOCK_CACHE = EmptyCache
    /\ cache_src = [price |-> NoCall, change |-> NoCall]
    /\ session = [t \in Threads |-> [IdleSession EXCEPT !.pc = "ready"]]
    /\ ValIdle
    /\ NormIdle
    /\ QuarterIdle
    /\ FetchIdle
    /\ StoreIdle

RaceNext ==
    \E t \in Threads :
        \/ Call(t, {{<<"s", "h", "6", "0", "0", "5", "1", "9">>}, {<<"h", "k", "7", "0", "0">>}})
        \/ FetchChunk(t, {"fail", "ok"})
        \/ WritePrice(t)
        \/ WriteChange(t)
        \/ WriteTime(t)
        \/ CheckPrice(t)
        \/ CheckChange(t)
        \/ ReadPrice(t)
        \/ ReadChange(t)

RaceSpec == RaceInit /\ [][RaceNext]_vars

(***************************************************************************)
(* Properties of get_stock_realtime_price_batch.                           *)
(***************************************************************************)
Finished(t) == session[t].pc = "done" /\ ~session[t].raised
HasKey(m, k) == k \in DOMAIN m

\* C11: the empty identifier is never a key of a map the quote lookup caches
\* or returns.
C11_EmptyKeyNeverStored ==
    /\ ~HasKey(LAST_A_STOCK_CACHE.price_map, <<>>)
    /\ ~HasKey(LAST_A_STOCK_CACHE.change_map, <<>>)
    /\ \A t \in Threads :
          Finished(t) =>
              /\ ~HasKey(session[t].returned.price_map, <<>>)
              /\ ~HasKey(session[t].returned.change_map, <<>>)

\* The call of thread t has returned with an answer taken from the cache or
\* with nothing, after obtaining no fresh quote.
AnsweredStale(t) == Finished(t) /\ ~session[t].fresh

\* C12: a call that obtained no fresh quote returns maps whose keys are all
\* normalized identifiers it was asked for; nothing for an empty request.
C12_FallbackOnlyRequestedKeys ==
    \A t \in Threads :
        AnsweredStale(t) =>
            /\ DOMAIN session[t].returned.price_map \subseteq wanted_of(session[t].stock_codes)
            /\ DOMAIN session[t].returned.change_map \subseteq wanted_of(session[t].stock_codes)

\* The call of thread t is over and had keys to ask the provider for.
WentToProvider(t) == session[t].pc = "done" /\ ~IsEmptySeq(session[t].tencent_codes)

\* The k-th chunk of a list of n keys.
ChunkOf(keys, k) ==
    SubSeq(keys, (k - 1) * BatchSize + 1, Min(k * BatchSize, Len(keys)))
ChunkCount(n) == (n + BatchSize - 1) \div BatchSize

\* The answer to the k-th request carried the records of its keys.
Succeeded(t, k) == session[t].kinds[k] \in {"ok", "junk"}

\* The identifiers whose records came back.
Answered(t) ==
    {session[t].code_map[key] :
        key \in {x \in DOMAIN session[t].code_map :
                    \E k \in 1..Len(session[t].sent) :
                        /\ Succeeded(t, k)
                        /\ \E j \in 1..Len(session[t].sent[k]) : session[t].sent[k][j] = x}}

\* The price the record of key carries, 0 when it is not a number.
QuotedPrice(key) ==
    IF MarketLine(key).latest = NaN THEN Zero ELSE MarketLine(key).latest

\* C13: a call whose keys go out in chunks does not raise; it requests every
\* chunk whatever the earlier ones did, and when some chunk was answered it
\* returns the quote of each identifier of the answered chunks and of no
\* other requested identifier.
C13_FailedChunkOnlyLosesItsOwn ==
    \A t \in Threads :
        WentToProvider(t) =>
            /\ ~session[t].raised
            /\ Len(session[t].sent) = ChunkCount(Len(session[t].tencent_codes))
            /\ \A k \in 1..Len(session[t].sent) :
                  session[t].sent[k] = ChunkOf(session[t].tencent_codes, k)
            /\ (\E k \in 1..Len(session[t].sent) : Succeeded(t, k)) =>
                  /\ session[t].fresh
                  /\ DOMAIN session[t].returned.price_map \cap session[t].wanted = Answered(t)
                  /\ DOMAIN session[t].returned.change_map \cap session[t].wanted = Answered(t)
                  /\ \A key \in DOMAIN session[t].code_map :
                        session[t].code_map[key] \in Answered(t) =>
                            session[t].returned.price_map[session[t].code_map[key]]
                                = QuotedPrice(key)

\* A call of two chunks: the first request failed, the second was answered.
C13_Witness ==
    \E t \in Threads :
        /\ WentToProvider(t)
        /\ Len(session[t].sent) = 2
        /\ session[t].kinds[1] \in {"fail", "empty"}
        /\ session[t].kinds[2] = "ok"
        /\ Answered(t) # {}
        /\ \E c \in session[t].wanted : ~HasKey(session[t].returned.price_map, c)

\* No request of the call of thread t brought a record that could be stored.
NothingUsable(t) ==
    \A k \in 1..Len(session[t].kinds) : session[t].kinds[k] \in {"fail", "empty", "short"}

\* The cache had nothing to fall back to when the call of thread t began.
CacheWasEmpty(t) ==
    IsEmptyMap(session[t].before.price_map) \/ IsEmptyMap(session[t].before.change_map)

\* C14: no call raises, whatever the requests do; a call whose requests all
\* fail or bring no valid record, made with an empty cache, returns two empty
\* maps.
C14_TotalFailureGivesEmptyMaps ==
    \A t \in Threads :
        session[t].pc = "done" =>
            /\ ~session[t].raised
            /\ session[t].returned # None
            /\ (WentToProvider(t) /\ NothingUsable(t) /\ CacheWasEmpty(t)) =>
                  session[t].returned = NoMaps

\* Two requests, both failed with an exception, nothing cached before.
C14_Witness ==
    \E t \in Threads :
        /\ WentToProvider(t)
        /\ session[t].kinds = <<"fail", "fail">>
        /\ CacheWasEmpty(t)
        /\ session[t].returned = NoMaps

\* Some request of the call of thread t brought a record that was stored.
GotFreshQuote(t) == WentToProvider(t) /\ ~NothingUsable(t)

\* C20: when a call that obtained a fresh quote is over, the cache holds the
\* two maps it returned and a later timestamp than before; when a call that
\* obtained none is over, the cache is what it was when the call began.
C20_CacheFollowsFreshCallsOnly ==
    \A t \in Threads :
        session[t].pc = "done" =>
            IF GotFreshQuote(t)
            THEN /\ LAST_A_STOCK_CACHE.price_map = session[t].returned.price_map
                 /\ LAST_A_STOCK_CACHE.change_map = session[t].returned.change_map
                 /\ LAST_A_STOCK_CACHE.update_time > session[t].before.update_time
            ELSE LAST_A_STOCK_CACHE = session[t].before

\* A call with a fresh quote has replaced maps cached by an earlier call with
\* different ones.
C20_Witness ==
    \E t \in Threads :
        /\ session[t].pc = "done"
        /\ GotFreshQuote(t)
        /\ ~CacheWasEmpty(t)
        /\ session[t].before.price_map # LAST_A_STOCK_CACHE.price_map
        /\ LAST_A_STOCK_CACHE.price_map = session[t].returned.price_map

\* The call of thread t is over and answered from the two maps it read from
\* the cache.
ReadTheCache(t) ==
    /\ session[t].pc = "done"
    /\ session[t].saw_price_by # NoCall
    /\ session[t].saw_change_by # NoCall

\* C19: a call that answers from the cache has read a price map and a change
\* map that one and the same call wrote, and the two have the same keys.
C19_ReaderSeesOneFetch ==
    \A t \in Threads :
        ReadTheCache(t) =>
            /\ session[t].saw_price_by = session[t].saw_change_by
            /\ DOMAIN session[t].price_map = DOMAIN session[t].change_map

(***************************************************************************)
(* get_fund_portfolio, src/app.py:430-448: the choice of the latest         *)
(* quarter.  A label is a sequence of characters; the Chinese characters of *)
(* the feed are written as one token each: "nian" (year), "ji" "du"         *)
(* (quarter), "yi" "er" "san" "si" (one to four), "bao" "gao" (report).     *)
(***************************************************************************)
DigitValue(c) ==
    CASE c = "0" -> 0 [] c = "1" -> 1 [] c = "2" -> 2 [] c = "3" -> 3 [] c = "4" -> 4
      [] c = "5" -> 5 [] c = "6" -> 6 [] c = "7" -> 7 [] c = "8" -> 8 [] c = "9" -> 9

\* line 432: [int(x) for x in re.findall(r"\d+", s)]; open says whether the
\* last number is still being read
RECURSIVE find_numbers(_, _, _)
find_numbers(s, nums, open) ==
    IF IsEmptySeq(s) THEN nums
    ELSE IF Head(s) \in DigitChars
         THEN IF open
              THEN find_numbers(Tail(s),
                       [nums EXCEPT ![Len(nums)] = 10 * nums[Len(nums)] + DigitValue(Head(s))],
                       TRUE)
              ELSE find_numbers(Tail(s), Append(nums, DigitValue(Head(s))), TRUE)
         ELSE find_numbers(Tail(s), nums, FALSE)

\* line 440: re.search(r"q([1-4])", s.lower()); 0 when there is no match
RECURSIVE search_q(_)
search_q(s) ==
    IF Len(s) < 2 THEN 0
    ELSE IF LowerChar(s[1]) = "q" /\ s[2] \in {"1", "2", "3", "4"} THEN DigitValue(s[2])
    ELSE search_q(Tail(s))

\* lines 430-443
quarter_key(text) ==
    LET nums == find_numbers(text, <<>>, FALSE)
    IN  IF IsEmptySeq(nums) THEN <<-1, -1>>
        ELSE IF Len(nums) >= 2 THEN <<nums[1], nums[2]>>
        ELSE IF search_q(text) # 0 THEN <<nums[1], search_q(text)>>
        ELSE <<nums[1], -1>>

\* Python's order of pairs
PairLess(a, b) == a[1] < b[1] \/ (a[1] = b[1] /\ a[2] < b[2])

\* line 448: max(list, key=quarter_key), the first of the greatest
max_by_key(list) ==
    list[CHOOSE i \in 1..Len(list) :
            /\ \A j \in 1..Len(list) : ~PairLess(quarter_key(list[i]), quarter_key(list[j]))
            /\ \A j \in 1..(i - 1) : PairLess(quarter_key(list[j]), quarter_key(list[i]))]

\* The disclosure tables: what a label means, and how the feed writes it.
Years == {<<"2", "0", "2", "3">>, <<"2", "0", "2", "4">>}
QuarterNumbers == {1, 2, 4}
LabelForms == {"digits", "Q", "numeral"}
DigitOf(q) == CHOOSE c \in DigitChars : DigitValue(c) = q
NumeralOf(q) == CASE q = 1 -> "yi" [] q = 2 -> "er" [] q = 3 -> "san" [] q = 4 -> "si"

\* "2024" "nian" "1" "ji" "du", "2024" "Q" "1", "2024" "nian" "yi" "ji" "du" "bao" "gao"
Label(year, q, form) ==
    CASE form = "digits" -> year \o <<"nian", DigitOf(q), "ji", "du">>
      [] form = "Q" -> year \o <<"Q", DigitOf(q)>>
      [] form = "numeral" -> year \o <<"nian", NumeralOf(q), "ji", "du", "bao", "gao">>

LabelsOf(form) == {Label(y, q, form) : y \in Years, q \in QuarterNumbers}

\* quarters.unique().tolist(): distinct labels, in the order of the rows
QuarterLists ==
    UNION {{l \in SeqsUpTo(LabelsOf(form), MaxQuarters) :
               /\ ~IsEmptySeq(l)
               /\ \A i, j \in 1..Len(l) : i # j => l[i] # l[j]} : form \in LabelForms}

\* lines 445-447: the labels of a table that has some
QuarterInit ==
    /\ quarters \in QuarterLists
    /\ latest_quarter = None
    /\ qpc = "ready"
    /\ df = <<>> /\ df_latest = <<>> /\ top_holdings = <<>>
    /\ ValIdle
    /\ NormIdle
    /\ BatchIdle
    /\ FetchIdle
    /\ StoreIdle

\* line 448
SelectLatest ==
    /\ qpc = "ready"
    /\ latest_quarter' = max_by_key(quarters)
    /\ qpc' = "selected"
    /\ UNCHANGED <<quarters, df, df_latest, top_holdings, valVars, normVars, batchVars, fetchVars, storeVars>>

QuarterNext == SelectLatest

QuarterSpec == QuarterInit /\ [][QuarterNext]_vars

\* The (year, quarter number) a label of the feed stands for.
Meaning(text) ==
    CHOOSE pair \in {<<y, q>> : y \in {2023, 2024}, q \in QuarterNumbers} :
        \E form \in LabelForms :
            text = Label(IF pair[1] = 2023 THEN <<"2", "0", "2", "3">>
                         ELSE <<"2", "0", "2", "4">>, pair[2], form)

\* C15: the selected label stands for a (year, quarter number) that no label
\* of the table exceeds.
C15_LatestQuarterIsGreatest ==
    qpc = "selected" =>
        \A i \in 1..Len(quarters) :
            ~PairLess(Meaning(latest_quarter), Meaning(quarters[i]))

(***************************************************************************)
(* fetch_all_funds_data, src/app.py:775-841.  A fund is its position in    *)
(* funds_list.  An answer of a provider is [raises, value]: an exception,  *)
(* or the value returned.                                                  *)
(***************************************************************************)
max_workers == 3
FetchDay == 2

Returns(v) == [raises |-> FALSE, value |-> v]
Raises == [raises |-> TRUE, value |-> <<>>]

\* What the holdings provider and the NAV provider answer for one fund: an
\* ordinary fund, one whose holdings fetch fails, one whose NAV fetch fails,
\* and one without holdings whose NAV of today is published.
FundCases ==
    {[holdings |-> Returns(<<Holding1>>),
      nav |-> Returns(NavHistory(<<Rat(2000, 1000)>>, FetchDay - 1))],
     [holdings |-> Raises,
      nav |-> Returns(NavHistory(<<Rat(2000, 1000)>>, FetchDay - 1))],
     [holdings |-> Returns(<<Holding2, Holding3>>),
      nav |-> Raises],
     [holdings |-> Returns(<<>>),
      nav |-> Returns(NavHistory(<<Rat(1960, 1000), Rat(2000, 1000)>>, FetchDay))]}

\* What get_stock_realtime_price_batch does when called: raise, or return maps.
QuoteOutcomes ==
    {Raises, Returns(EmptyMap),
     Returns([k \in {Code600519} |-> RInt(10)]),
     Returns([k \in {Code600519, Code00700} |-> IF k = Code600519 THEN RInt(10) ELSE RInt(-2)])}

\* A plausible slip: the worker lets the exception out.
fetch_portfolio_item_unguarded(answer) == answer

\* lines 788-797: the result of a worker's future
fetch_portfolio_item(answer) == IF answer.raises THEN Returns(<<>>) ELSE answer

\* A plausible slip: the test of line 807 is missing.
codes_of_unfiltered(items) ==
    {normalize_stock_code(items[i].code) : i \in 1..Len(items)}

\* lines 805-808: the codes one fund adds to wanted_codes
codes_of(items) ==
    {normalize_stock_code(items[i].code) : i \in 1..Len(items)} \ {<<>>}

\* A plausible slip: the set is assigned, not added to.
collect_codes_last(wanted, items) == codes_of(items)

\* lines 805-808
collect_codes(wanted, items) == wanted \cup codes_of(items)

\* line 828: portfolio_map.get(code, [])
holdings_of(map, fund) == IF fund \in DOMAIN map THEN map[fund] ELSE <<>>

\* lines 822-836: the entry of one fund; an exception of the NAV provider is
\* caught inside calculate_fund_valuation (lines 771-773), which returns None
valuation_entry(fund, nav, changes, items) ==
    IF nav.raises THEN None
    ELSE calculate_fund_valuation(fund, FundName, changes, items, nav.value, FetchDay)

Funds == 1..Len(funds_list)
InState(st) == {f \in Funds : future[f].state = st}

\* lines 781-786, 800-801: every fund's fetch submitted to the pool
FetchInit ==
    /\ funds_list \in SeqsUpTo(FundCases, MaxFunds) \ {<<>>}
    /\ future = [f \in 1..Len(funds_list) |-> [state |-> "queued", result |-> Returns(<<>>)]]
    /\ portfolio_map = EmptyMap
    /\ wanted_codes = {}
    /\ quote = [status |-> "pending", calls |-> 0, arg |-> {}, a_changes |-> EmptyMap]
    /\ results = EmptyMap
    /\ fpc = "collect"
    /\ ValIdle
    /\ NormIdle
    /\ BatchIdle
    /\ QuarterIdle
    /\ StoreIdle

\* line 800: a free worker of the pool takes the next submitted fetch
StartFetch ==
    /\ fpc = "collect"
    /\ InState("queued") # {}
    /\ Cardinality(InState("running")) < max_workers
    /\ LET f == CHOOSE x \in InState("queued") : \A y \in InState("queued") : x <= y
       IN  future' = [future EXCEPT ![f].state = "running"]
    /\ UNCHANGED <<funds_list, portfolio_map, wanted_codes, quote, results, fpc, storeVars>>
    /\ UNCHANGED <<valVars, normVars, batchVars, quarterVars, storeVars>>

\* lines 788-797: a worker finishes its fetch
FinishFetch ==
    /\ fpc = "collect"
    /\ \E f \in InState("running") :
          future' = [future EXCEPT ![f] = [state |-> "finished",
                         result |-> fetch_portfolio_item(funds_list[f].holdings)]]
    /\ UNCHANGED <<funds_list, portfolio_map, wanted_codes, quote, results, fpc, storeVars>>
    /\ UNCHANGED <<valVars, normVars, batchVars, quarterVars, storeVars>>

\* lines 802-810: the calling thread takes a finished future; an exception
\* of future.result() leaves fetch_all_funds_data
Collect ==
    /\ fpc = "collect"
    /\ \E f \in InState("finished") :
          /\ future' = [future EXCEPT ![f].state = "collected"]
          /\ IF future[f].result.raises
             THEN /\ fpc' = "aborted"
                  /\ UNCHANGED <<portfolio_map, wanted_codes, storeVars>>
             ELSE /\ portfolio_map' = MapPut(portfolio_map, f, future[f].result.value)
                  /\ wanted_codes' = collect_codes(wanted_codes, future[f].result.value)
                  /\ fpc' = IF InState("collected") \cup {f} = Funds THEN "quote" ELSE "collect"
    /\ UNCHANGED <<funds_list, quote, results, storeVars>>
    /\ UNCHANGED <<valVars, normVars, batchVars, quarterVars, storeVars>>

\* lines 812-815: the quote lookup is called, or skipped for want of codes
CallQuotes ==
    /\ fpc = "quote"
    /\ quote.status = "pending"
    /\ IF wanted_codes = {}
       THEN /\ quote' = [quote EXCEPT !.status = "skipped"]
            /\ fpc' = "value"
       ELSE /\ quote' = [quote EXCEPT !.status = "calling", !.calls = quote.calls + 1,
                                      !.arg = wanted_codes]
            /\ fpc' = "quote"
    /\ UNCHANGED <<funds_list, future, portfolio_map, wanted_codes, results, storeVars>>
    /\ UNCHANGED <<valVars, normVars, batchVars, quarterVars, storeVars>>

\* lines 815-818: the quote lookup returns, or raises and is caught
QuotesBack ==
    /\ fpc = "quote"
    /\ quote.status = "calling"
    /\ \E out \in QuoteOutcomes :
          quote' = IF out.raises
                   THEN [quote EXCEPT !.status = "failed"]
                   ELSE [quote EXCEPT !.status = "returned", !.a_changes = out.value]
    /\ fpc' = "value"
    /\ UNCHANGED <<funds_list, future, portfolio_map, wanted_codes, results, storeVars>>
    /\ UNCHANGED <<valVars, normVars, batchVars, quarterVars, storeVars>>

\* lines 820-839: the next fund of funds_list is valued
Valuate ==
    /\ fpc = "value"
    /\ LET f == Cardinality(DOMAIN results) + 1
       IN  /\ results' = MapPut(results, f,
                   valuation_entry(f, funds_list[f].nav, quote.a_changes,
                                   holdings_of(portfolio_map, f)))
           /\ fpc' = IF f = Len(funds_list) THEN "done" ELSE "value"
    /\ UNCHANGED <<funds_list, future, portfolio_map, wanted_codes, quote, storeVars>>
    /\ UNCHANGED <<valVars, normVars, batchVars, quarterVars, storeVars>>

FetchNext ==
    \/ StartFetch
    \/ FinishFetch
    \/ Collect
    \/ CallQuotes
    \/ QuotesBack
    \/ Valuate

FetchSpec == FetchInit /\ [][FetchNext]_vars

(***************************************************************************)
(* Properties of fetch_all_funds_data.                                     *)
(***************************************************************************)
\* The non-empty normalized codes of the holdings the provider gave fund f.
HeldCodes(f) ==
    IF funds_list[f].holdings.raises THEN {}
    ELSE {normalize_stock_code(funds_list[f].holdings.value[i].code) :
              i \in 1..Len(funds_list[f].holdings.value)} \ {<<>>}
AllHeldCodes == UNION {HeldCodes(f) : f \in Funds}

QuoteCalled == quote.status \in {"calling", "returned", "failed"}
QuoteOver == quote.status \in {"returned", "failed", "skipped"}

\* C16: the quote lookup is called at most once; when it is called every
\* holdings fetch has been collected and its argument is the union of the
\* funds' non-empty normalized codes; it is left out only when there is no
\* such code; no fund is valued before the lookup is over.
C16_OneQuoteCallAfterHoldingsBeforeValuations ==
    /\ quote.calls <= 1
    /\ QuoteCalled <=> quote.calls = 1
    /\ QuoteCalled => InState("collected") = Funds /\ quote.arg = AllHeldCodes
    /\ quote.status = "skipped" => InState("collected") = Funds /\ AllHeldCodes = {}
    /\ DOMAIN results # {} => QuoteOver

\* An invocation is over whose single quote call asked for the codes of two
\* funds, one of which also holds a security without a code.
C16_Witness ==
    /\ fpc = "done"
    /\ quote.calls = 1
    /\ quote.arg = {Code600519, Code00700}
    /\ \E f, g \in Funds : HeldCodes(f) = {Code600519} /\ HeldCodes(g) = {Code00700}

\* What fund f is valued at from its own providers' answers and the quote
\* maps alone: a failed holdings fetch counts as no holdings.
OwnValuation(f) ==
    IF funds_list[f].nav.raises THEN None
    ELSE calculate_fund_valuation(f, FundName, quote.a_changes,
             IF funds_list[f].holdings.raises THEN <<>> ELSE funds_list[f].holdings.value,
             funds_list[f].nav.value, FetchDay)

HoldingsFailed(f) == funds_list[f].holdings.raises
EstimationFailed(f) == funds_list[f].nav.raises

\* C17 as stated: every fund has an entry; the entry of a fund whose
\* holdings fetch or estimation failed is None, and every other entry is the
\* fund's own valuation.
C17_AnyFailureGivesNone ==
    fpc = "done" =>
        /\ DOMAIN results = Funds
        /\ \A f \in Funds :
              IF HoldingsFailed(f) \/ EstimationFailed(f)
              THEN results[f] = None
              ELSE results[f] = OwnValuation(f)

\* C17, amended: the invocation is never abandoned and every fund has an
\* entry, its own valuation whatever the other funds did; the entry is None
\* when the estimation failed, and the valuation with no holdings, not None,
\* when only the holdings fetch failed.
C17_FailureStaysWithItsFund ==
    /\ fpc # "aborted"
    /\ fpc = "done" =>
          /\ DOMAIN results = Funds
          /\ \A f \in Funds :
                /\ results[f] = OwnValuation(f)
                /\ EstimationFailed(f) => results[f] = None
                /\ (HoldingsFailed(f) /\ ~EstimationFailed(f)) =>
                      /\ results[f] # None
                      /\ results[f].portfolio = <<>>
                      /\ ~results[f].is_estimated

\* Three funds were valued: the holdings fetch of one failed, the estimation
\* of another failed, and the third got a live estimate.
C17_Witness ==
    /\ fpc = "done"
    /\ \E f, g, h \in Funds :
          /\ HoldingsFailed(f) /\ results[f] # None
          /\ EstimationFailed(g) /\ results[g] = None
          /\ results[h] # None /\ results[h].is_estimated

\* What the invocation ends with, told from funds_list and the answer of the
\* quote lookup alone, with no word of the order of the workers.
SettledOutcome ==
    /\ results = [f \in Funds |-> OwnValuation(f)]
    /\ portfolio_map = [f \in Funds |->
           IF HoldingsFailed(f) THEN <<>> ELSE funds_list[f].holdings.value]
    /\ wanted_codes = AllHeldCodes
    /\ quote.calls = 1 => quote.arg = AllHeldCodes

\* A step that writes portfolio_map or wanted_codes is the calling thread
\* collecting one finished future; no other future changes in that step.
OnlyCollectorWrites ==
    (portfolio_map' # portfolio_map \/ wanted_codes' # wanted_codes) =>
        \E f \in Funds :
            /\ future[f].state = "finished"
            /\ future'[f].state = "collected"
            /\ \A g \in Funds \ {f} : future'[g] = future[g]
            /\ DOMAIN portfolio_map' = DOMAIN portfolio_map \cup {f}

\* C18: whatever the order in which the holdings fetches finish, the returned
\* mapping and the codes sent to the quote lookup are the same; the holdings
\* map and the code set are written only by the collecting thread, one
\* future at a time.
C18_CompletionOrderDoesNotMatter ==
    /\ [](fpc = "done" => SettledOutcome)
    /\ [][OnlyCollectorWrites]_vars

\* The fetch of a later fund was collected, with codes, while that of the
\* first fund was still running.
C18_Witness ==
    /\ future[1].state = "running"
    /\ \E f \in Funds : f > 1 /\ future[f].state = "collected" /\ HeldCodes(f) # {}
    /\ wanted_codes # {}

(***************************************************************************)
(* Further properties of get_stock_realtime_price_batch.                   *)
(***************************************************************************)
\* The provider keys of the requested codes that have a venue route.
RoutedKeys(t) ==
    {to_tencent_code(c) : c \in {x \in wanted_of(session[t].stock_codes) :
                                    ~IsEmptySeq(to_tencent_code(x))}}

\* How many times key is in the key lists of the requests of thread t's call.
RECURSIVE TimesSent(_, _, _)
TimesSent(t, key, k) ==
    IF k = 0 THEN 0
    ELSE TimesSent(t, key, k - 1)
         + Cardinality({j \in 1..Len(session[t].sent[k]) : session[t].sent[k][j] = key})

\* C21: no request carries more than BatchSize keys (the 80 of line 338);
\* the key of every requested code with a venue route is in exactly one
\* request; nothing else is sent, so a code without a route is in none.
C21_EachRoutedKeySentOnce ==
    \A t \in Threads :
        session[t].pc = "done" =>
            /\ \A k \in 1..Len(session[t].sent) :
                  /\ Len(session[t].sent[k]) <= BatchSize
                  /\ \A j \in 1..Len(session[t].sent[k]) : session[t].sent[k][j] \in RoutedKeys(t)
            /\ \A key \in RoutedKeys(t) : TimesSent(t, key, Len(session[t].sent)) = 1

\* A call for more codes with a route than one request holds took several
\* requests, each key in one of them.
C21_Witness ==
    \E t \in Threads :
        /\ session[t].pc = "done"
        /\ Cardinality(RoutedKeys(t)) > BatchSize
        /\ Len(session[t].sent) > 1
        /\ \A key \in RoutedKeys(t) : TimesSent(t, key, Len(session[t].sent)) = 1

(***************************************************************************)
(* Venue routing: a code as the holdings feed writes it is normalized      *)
(* (line 307) and routed (line 323).                                       *)
(***************************************************************************)
\* The codes of listed securities: a Hong Kong code is "hk" and one to five
\* digits, a mainland code six digits; any first digit, then 0 or 6.
ListedCodes ==
    LET first == {"0", "1", "3", "4", "6", "8", "9"}
        rest(n) == [1..n -> {"0", "6"}]
    IN  {<<"h", "k", f>> \o r : f \in first, r \in UNION {rest(n) : n \in 0..4}}
        \cup {<<f>> \o r : f \in first, r \in rest(5)}

RouteInit ==
    /\ raw \in ListedCodes
    /\ norm1 = <<>>
    /\ norm2 = <<>>
    /\ npc = 0
    /\ tencent_code = <<>>
    /\ ValIdle
    /\ BatchIdle
    /\ QuarterIdle
    /\ FetchIdle
    /\ StoreIdle

\* line 323: to_tencent_code(c) for a wanted code
RouteNormalized ==
    /\ npc = 1
    /\ tencent_code' = to_tencent_code(norm1)
    /\ npc' = 3
    /\ UNCHANGED <<raw, norm1, norm2, valVars, batchVars, quarterVars, fetchVars, storeVars>>

RouteNext == NormalizeOnce \/ RouteNormalized

RouteSpec == RouteInit /\ [][RouteNext]_vars

Routed == npc = 3
KeyPrefix == IF Len(tencent_code) >= 2 THEN SubSeq(tencent_code, 1, 2) ELSE <<>>
KeyCode == IF Len(tencent_code) >= 2 THEN SubSeq(tencent_code, 3, Len(tencent_code)) ELSE <<>>
MainlandPrefixOf(code) ==
    IF StartsWith(code, "6") THEN <<"s", "h">>
    ELSE IF StartsWith(code, "0") \/ StartsWith(code, "3") THEN <<"s", "z">>
    ELSE IF StartsWith(code, "8") \/ StartsWith(code, "4") \/ StartsWith(code, "9")
         THEN <<"b", "j">>
    ELSE <<>>

\* C22: a five-digit Hong Kong code is routed to "hk" and its five digits,
\* and only such a code is; a mainland code is routed by its first digit to
\* "sh", "sz" or "bj", or not at all; a key with a mainland prefix carries six
\* digits.
C22_RouteByVenue ==
    Routed =>
        /\ (RawIsHk /\ Len(norm1) = 5) <=> KeyPrefix = <<"h", "k">>
        /\ (RawIsHk /\ Len(norm1) = 5) => KeyCode = norm1
        /\ ~RawIsHk =>
              /\ KeyPrefix = MainlandPrefixOf(norm1)
              /\ KeyPrefix # <<>> => KeyCode = norm1
        /\ KeyPrefix \in {<<"s", "h">>, <<"s", "z">>, <<"b", "j">>} => Len(KeyCode) = 6

(***************************************************************************)
(* get_fund_portfolio, src/app.py:430-448, on tables that mix quarterly    *)
(* labels with labels that name no quarter: an annual report               *)
(* ("2025" "nian" "bao") and a label without any number ("bao" "gao").     *)
(***************************************************************************)
YearOnlyLabels ==
    {y \o <<"nian", "bao">> : y \in {<<"2", "0", "2", "3">>, <<"2", "0", "2", "5">>}}
NoNumberLabels == {<<"bao", "gao">>}
NumberedLabels == LabelsOf("digits") \cup LabelsOf("Q")

\* quarters.unique().tolist(): distinct labels, in the order of the rows
MixedLists ==
    {l \in SeqsUpTo(NumberedLabels \cup YearOnlyLabels \cup NoNumberLabels, MaxQuarters) :
        /\ ~IsEmptySeq(l)
        /\ \A i, j \in 1..Len(l) : i # j => l[i] # l[j]}

MixedInit ==
    /\ quarters \in MixedLists
    /\ latest_quarter = None
    /\ qpc = "ready"
    /\ df = <<>> /\ df_latest = <<>> /\ top_holdings = <<>>
    /\ ValIdle
    /\ NormIdle
    /\ BatchIdle
    /\ FetchIdle
    /\ StoreIdle

MixedSpec == MixedInit /\ [][QuarterNext]_vars

LabelsIn(set) == {quarters[i] : i \in 1..Len(quarters)} \cap set

\* C23: every label that names no quarter has the key (-1, -1), and none is
\* selected in a table that has a label with year and quarter, whatever
\* year it names.
C23_NoQuarterNeverSelected ==
    qpc = "selected" =>
        /\ \A l \in LabelsIn(YearOnlyLabels \cup NoNumberLabels) :
               quarter_key(l) = <<-1, -1>>
        /\ LabelsIn(NumberedLabels) # {} => latest_quarter \in NumberedLabels

(***************************************************************************)
(* get_fund_portfolio, src/app.py:445-472, from the table to the list      *)
(* returned.  A row of the table is [quarter, ratio, code, name], each a   *)
(* sequence of characters as the feed writes it.                           *)
(***************************************************************************)
\* Series.unique(): the distinct values in order of first appearance
RECURSIVE unique(_)
unique(list) ==
    IF IsEmptySeq(list) THEN <<>>
    ELSE LET front == unique(SubSeq(list, 1, Len(list) - 1))
         IN  IF \E i \in 1..Len(front) : front[i] = list[Len(list)]
             THEN front ELSE Append(front, list[Len(list)])

\* lines 453-454: drop "%", to_numeric(errors="coerce"), fillna(0.0)
parse_ratio(text) ==
    LET ratio_series == SelectSeq(text, LAMBDA c : c # "%")
    IN  IF ~IsEmptySeq(ratio_series)
           /\ \A i \in 1..Len(ratio_series) : ratio_series[i] \in DigitChars
        THEN RInt(find_numbers(ratio_series, <<>>, FALSE)[1])
        ELSE Zero

\* line 183: "HK" in str(name).upper()
ContainsHK(name) ==
    LET upper(c) == CASE c = "h" -> "H" [] c = "k" -> "K" [] OTHER -> c
    IN  \E i \in 1..(Len(name) - 1) : upper(name[i]) = "H" /\ upper(name[i + 1]) = "K"

\* lines 179-187
is_hk_stock(code, name) ==
    LET digits == DigitsOf(code)
    IN  \/ Len(digits) = 5 /\ StartsWith(digits, "0")
        \/ ContainsHK(name)
        \/ StartsWithHk(code)

\* lines 460-465 without the Hong Kong branch
code_norm_of_plain(code_value, name_value) ==
    LET digits == DigitsOf(code_value)
    IN  IF Len(digits) >= 6 THEN LastK(digits, 6) ELSE digits

\* lines 460-465
code_norm_of(code_value, name_value) ==
    LET digits == DigitsOf(code_value)
    IN  IF is_hk_stock(code_value, name_value) /\ ~IsEmptySeq(digits)
        THEN ZFill(LastK(digits, 5), 5)
        ELSE IF Len(digits) >= 6 THEN LastK(digits, 6) ELSE digits

\* lines 466-470
holding_of(row) ==
    [code |-> code_norm_of(row.code, row.name),
     name |-> row.name,
     ratio |-> parse_ratio(row.ratio)]

\* line 455: the orders sort_values(ascending=False) may leave the rows in;
\* the default sort is not stable, rows of equal weight come in any order
sorted_orders(rows) ==
    {order \in Perms(rows) :
        \A i, j \in 1..Len(order) :
            i < j => ~RGt(parse_ratio(df[order[j]].ratio), parse_ratio(df[order[i]].ratio))}

\* What the feed writes: the quarter, the weight, and the security.
Securities ==
    {[code |-> <<"6", "0", "0", "5", "1", "9">>, name |-> <<"M">>],
     [code |-> <<"0", "0", "7", "0", "0">>, name |-> <<"T">>],
     [code |-> <<"8", "0", "7", "0", "0">>, name |-> <<"B", "-", "h", "k">>],
     [code |-> <<"0", "0", "9", "9", "8", "8">>, name |-> <<"A", "H", "K">>],
     [code |-> <<"h", "k", "7", "0", "0">>, name |-> <<"T">>],
     [code |-> <<"U", "S">>, name |-> <<"H", "K", "U">>]}
Rows ==
    LET QuarterLabels ==
            {Label(<<"2", "0", "2", "4">>, 4, "digits"), Label(<<"2", "0", "2", "4">>, 4, "Q"),
             Label(<<"2", "0", "2", "3">>, 4, "digits")}
        RatioTexts == {<<"9">>, <<"7", "%">>, <<"-", "-">>}
    IN  {[quarter |-> q, ratio |-> r, code |-> s.code, name |-> s.name] :
            q \in QuarterLabels, r \in RatioTexts, s \in Securities}

TableInit ==
    /\ df \in SeqsUpTo(Rows, MaxRows)
    /\ quarters = <<>>
    /\ latest_quarter = None
    /\ qpc = "table"
    /\ df_latest = <<>>
    /\ top_holdings = <<>>
    /\ ValIdle
    /\ NormIdle
    /\ BatchIdle
    /\ FetchIdle
    /\ StoreIdle

\* lines 408-409: an empty table
ReturnEmpty ==
    /\ qpc = "table"
    /\ IsEmptySeq(df)
    /\ qpc' = "returned"
    /\ UNCHANGED <<quarters, latest_quarter, df, df_latest, top_holdings,
                   valVars, normVars, batchVars, fetchVars, storeVars>>

\* lines 445-472
GetFundPortfolio ==
    /\ qpc = "table"
    /\ ~IsEmptySeq(df)
    /\ quarters' = unique([i \in 1..Len(df) |-> df[i].quarter])
    /\ latest_quarter' = max_by_key(quarters')
    /\ \E order \in sorted_orders({i \in 1..Len(df) : df[i].quarter = latest_quarter'}) :
           df_latest' = SubSeq(order, 1, Min(TopCount, Len(order)))
    /\ top_holdings' = [k \in 1..Len(df_latest') |-> holding_of(df[df_latest'[k]])]
    /\ qpc' = "returned"
    /\ UNCHANGED <<df, valVars, normVars, batchVars, fetchVars, storeVars>>

TableNext == ReturnEmpty \/ GetFundPortfolio

TableSpec == TableInit /\ [][TableNext]_vars

KeyOfRow(i) == quarter_key(df[i].quarter)
LatestRows ==
    {i \in 1..Len(df) : \A j \in 1..Len(df) : ~PairLess(KeyOfRow(i), KeyOfRow(j))}
Chosen == {df_latest[k] : k \in 1..Len(df_latest)}
Weight(i) == parse_ratio(df[i].ratio)

\* C24: the list returned is made of the rows whose label has the greatest
\* key, whatever the text of the label, in descending order of parsed weight
\* (0 for a weight that is not a number), cut to the first TopCount: the
\* TopCount heaviest rows of the latest quarter.
C24_TopRowsOfGreatestKey ==
    qpc = "returned" =>
        /\ Chosen \subseteq LatestRows
        /\ Len(df_latest) = Min(TopCount, Cardinality(LatestRows))
        /\ Cardinality(Chosen) = Len(df_latest)
        /\ \A k \in 1..Len(df_latest) : top_holdings[k].ratio = Weight(df_latest[k])
        /\ \A j, k \in 1..Len(df_latest) :
               j < k => ~RGt(Weight(df_latest[k]), Weight(df_latest[j]))
        /\ \A i \in LatestRows \ Chosen : \A c \in Chosen : ~RGt(Weight(i), Weight(c))

EmittedFrom(k) == df[df_latest[k]]
ForcedHongKong(row) == is_hk_stock(row.code, row.name) /\ ~IsEmptySeq(DigitsOf(row.code))

UPDATE_INTERVAL == 30
FUNDS_CACHE_TTL_SECONDS == 60

FundCodes == {<<"0", "0", "0", "0", "0", "1">>, <<"0", "0", "0", "0", "0", "2">>}
Costs == {0, 1}
CodesOf(list) == {list[i].code : i \in 1..Len(list)}
FundLists ==
    {l \in SeqsUpTo([code : FundCodes, cost : Costs], Cardinality(FundCodes)) :
        \A i, j \in 1..Len(l) : i # j => l[i].code # l[j].code}

\* lines 192-211; ok says whether the GET succeeds
load_funds(ok) ==
    IF ok THEN remote_record
    ELSE IF ~local_file.exists THEN <<>> ELSE local_file.content

\* lines 237-250: whether get_current_funds loads
Expired ==
    \/ funds_cache.none
    \/ now - funds_cache_time > FUNDS_CACHE_TTL_SECONDS

\* lines 231-252: the list get_current_funds returns
get_current_funds(ok) == IF Expired THEN load_funds(ok) ELSE funds_cache.list

\* lines 930-937 without the search for the code
add_fund_append(current_funds, new_entry) == Append(current_funds, new_entry)

\* lines 930-937
add_fund(current_funds, new_entry) ==
    IF new_entry.code \in CodesOf(current_funds)
    THEN LET i == CHOOSE i \in 1..Len(current_funds) :
                      /\ current_funds[i].code = new_entry.code
                      /\ \A j \in 1..(i - 1) : current_funds[j].code # new_entry.code
         IN  [current_funds EXCEPT ![i] = new_entry]
    ELSE Append(current_funds, new_entry)

\* lines 1117-1128
RECURSIVE batch_import(_, _)
batch_import(current_funds, codes) ==
    IF IsEmptySeq(codes) THEN current_funds
    ELSE batch_import(
             IF Len(Head(codes)) = 6 /\ Head(codes) \notin CodesOf(current_funds)
             THEN Append(current_funds, [code |-> Head(codes), cost |-> 0])
             ELSE current_funds,
             Tail(codes))

\* lines 1492-1496, and 1515-1518 for the tag
update_holding(current_funds, code, edit_cost) ==
    LET i == CHOOSE i \in 1..Len(current_funds) :
                 /\ current_funds[i].code = code
                 /\ \A j \in 1..(i - 1) : current_funds[j].code # code
    IN  [current_funds EXCEPT ![i].cost = edit_cost]

\* line 1523
delete_fund(current_funds, code) == SelectSeq(current_funds, LAMBDA f : f.code # code)

\* One run of the script with a handler: get_current_funds (line 1162), the
\* handler's edit, and save_funds (lines 213-228).  in_place says that the
\* handler edited the list get_current_funds returned; saves that it called
\* save_funds; read_ok and put_ok whether the GET and the PUT succeed.
RunHandler(handler, arg, edited, in_place, saves, read_ok, put_ok) ==
    LET current_funds == get_current_funds(read_ok)
        fallback == IF Expired THEN ~read_ok ELSE degraded
    IN  /\ IF saves /\ put_ok
           THEN /\ remote_record' = edited
                /\ local_file' = [exists |-> TRUE, content |-> edited]
                /\ funds_cache' = [none |-> FALSE, list |-> edited]
                /\ funds_cache_time' = now
                /\ degraded' = FALSE
           ELSE /\ funds_cache' = [none |-> FALSE,
                                   list |-> IF in_place THEN edited ELSE current_funds]
                /\ funds_cache_time' = IF Expired THEN now ELSE funds_cache_time
                /\ degraded' = fallback
                /\ UNCHANGED <<remote_record, local_file>>
        /\ save_log' = [handler |-> handler,
                        arg |-> arg,
                        read_ok |-> read_ok,
                        saved |-> IF ~saves THEN "none" ELSE IF put_ok THEN "ok" ELSE "failed",
                        fallback |-> fallback]
        /\ UNCHANGED <<now, valVars, normVars, batchVars, quarterVars, fetchVars>>

StoreInit ==
    /\ remote_record \in FundLists
    /\ local_file \in {[exists |-> FALSE, content |-> <<>>],
                       [exists |-> TRUE, content |-> remote_record]}
    /\ funds_cache = [none |-> TRUE, list |-> <<>>]
    /\ funds_cache_time = 0
    /\ now = 0
    /\ degraded = FALSE
    /\ save_log = NoSave
    /\ ValIdle
    /\ NormIdle
    /\ BatchIdle
    /\ QuarterIdle
    /\ FetchIdle

\* a run without a button pressed: line 1162
View(read_ok) ==
    /\ funds_cache' = [none |-> FALSE, list |-> get_current_funds(read_ok)]
    /\ funds_cache_time' = IF Expired THEN now ELSE funds_cache_time
    /\ degraded' = IF Expired THEN ~read_ok ELSE degraded
    /\ save_log' = NoSave
    /\ UNCHANGED <<remote_record, local_file, now,
                   valVars, normVars, batchVars, quarterVars, fetchVars>>

\* lines 1327-1330: the refresh button
Refresh(read_ok) ==
    /\ funds_cache' = [none |-> FALSE, list |-> load_funds(read_ok)]
    /\ funds_cache_time' = now
    /\ degraded' = ~read_ok
    /\ save_log' = NoSave
    /\ UNCHANGED <<remote_record, local_file, now,
                   valVars, normVars, batchVars, quarterVars, fetchVars>>

\* the clock, in steps of the automatic refresh
Tick ==
    /\ now + UPDATE_INTERVAL <= MaxClock
    /\ now' = now + UPDATE_INTERVAL
    /\ save_log' = NoSave
    /\ UNCHANGED <<remote_record, local_file, funds_cache, funds_cache_time, degraded,
                   valVars, normVars, batchVars, quarterVars, fetchVars>>

\* lines 903-943
AddFund(code, cost, read_ok, put_ok) ==
    LET current_funds == get_current_funds(read_ok)
    IN  /\ Len(current_funds) < MaxFundList
        /\ RunHandler("add", code, add_fund(current_funds, [code |-> code, cost |-> cost]),
                      TRUE, TRUE, read_ok, put_ok)

\* lines 1111-1135
BatchImport(codes, read_ok, put_ok) ==
    LET current_funds == get_current_funds(read_ok)
        edited == batch_import(current_funds, codes)
    IN  /\ Len(current_funds) + Len(codes) <= MaxFundList
        /\ RunHandler("import", codes, edited, TRUE, Len(edited) > Len(current_funds),
                      read_ok, put_ok)

\* lines 1491-1498
UpdateHolding(code, edit_cost, read_ok, put_ok) ==
    LET current_funds == get_current_funds(read_ok)
    IN  /\ code \in CodesOf(current_funds)
        /\ RunHandler("update", code, update_holding(current_funds, code, edit_cost),
                      TRUE, TRUE, read_ok, put_ok)

\* lines 1522-1525
DeleteFund(code, read_ok, put_ok) ==
    LET current_funds == get_current_funds(read_ok)
    IN  /\ code \in CodesOf(current_funds)
        /\ RunHandler("delete", code, delete_fund(current_funds, code),
                      FALSE, TRUE, read_ok, put_ok)

\* line 1116: the codes of an import text, a fund code or one a digit short
ImportTexts ==
    SeqsUpTo({<<"0", "0", "0", "0", "0", "1">>, <<"0", "0", "0", "0", "1">>}, MaxImport)

StoreNext ==
    \/ \E read_ok \in BOOLEAN : View(read_ok)
    \/ \E read_ok \in BOOLEAN : Refresh(read_ok)
    \/ Tick
    \/ \E code \in FundCodes, cost \in Costs, read_ok, put_ok \in BOOLEAN :
           AddFund(code, cost, read_ok, put_ok)
    \/ \E codes \in ImportTexts, read_ok, put_ok \in BOOLEAN :
           BatchImport(codes, read_ok, put_ok)
    \/ \E code \in FundCodes, cost \in Costs, read_ok, put_ok \in BOOLEAN :
           UpdateHolding(code, cost, read_ok, put_ok)
    \/ \E code \in FundCodes, read_ok, put_ok \in BOOLEAN :
           DeleteFund(code, read_ok, put_ok)

StoreSpec == StoreInit /\ [][StoreNext]_vars

Deleted(code) == save_log'.handler = "delete" /\ save_log'.arg = code

\* C26: a save that a handler makes from a list loaded by the fallback of
\* load_funds leaves in the remote store every fund that was there, except
\* the one the user deleted.
C26_SaveAfterFailedReadKeepsRemoteFunds ==
    [][(save_log'.saved = "ok" /\ save_log'.fallback) =>
           \A code \in CodesOf(remote_record) :
               Deleted(code) \/ code \in CodesOf(remote_record')]_vars

\* C27: when the save of a handler fails, the list in the session cache is
\* the list get_current_funds returned to that run, as it was before the
\* handler edited it.
C27_FailedSaveLeavesCacheUnedited ==
    [][save_log'.saved = "failed" =>
           funds_cache'.list = (IF Expired THEN load_funds(save_log'.read_ok)
                                ELSE funds_cache.list)]_vars

NoDuplicateCode(list) == \A i, j \in 1..Len(list) : i # j => list[i].code # list[j].code

\* C28: no two entries of the fund list have the same code: not in the list
\* the session works on, not in the remote store, not in the local file.
C28_FundCodesStayUnique ==
    /\ NoDuplicateCode(funds_cache.list)
    /\ NoDuplicateCode(remote_record)
    /\ NoDuplicateCode(local_file.content)

C28_Witness ==
    /\ save_log.handler = "import"
    /\ save_log.saved = "ok"
    /\ Len(save_log.arg) = 2
    /\ save_log.arg[1] = save_log.arg[2]
    /\ save_log.arg[1] \in CodesOf(remote_record)
    /\ Len(remote_record) = 2

(***************************************************************************)
(* A holding from the disclosure table to the estimate: get_fund_portfolio *)
(* (lines 445-472), the codes fetch_all_funds_data asks for (804-808), the *)
(* quote lookup (306-385) answered in full by the provider, and            *)
(* calculate_fund_valuation (729-751) on a day without an official NAV.    *)
(***************************************************************************)
PipeInit ==
    /\ df \in SeqsUpTo({[quarter |-> Label(<<"2", "0", "2", "4">>, 4, "digits"),
                          ratio |-> <<"9">>, code |-> s.code, name |-> s.name] :
                            s \in Securities}, MaxRows)
    /\ quarters = <<>>
    /\ latest_quarter = None
    /\ qpc = "table"
    /\ df_latest = <<>>
    /\ top_holdings = <<>>
    /\ df_nav = NavHistory(<<Rat(2000, 1000)>>, 1)
    /\ today = FetchDay
    /\ a_changes = EmptyMap
    /\ portfolio = <<>>
    /\ result = None
    /\ vpc = "idle"
    /\ NormIdle
    /\ BatchIdle
    /\ FetchIdle
    /\ StoreIdle

\* lines 804-808
PipeCollect ==
    /\ qpc = "returned"
    /\ fpc = "idle"
    /\ wanted_codes' = collect_codes(wanted_codes, top_holdings)
    /\ fpc' = "quote"
    /\ UNCHANGED <<funds_list, future, portfolio_map, quote, results,
                   valVars, normVars, batchVars, quarterVars, storeVars>>

\* lines 812-815 and 306-385: the codes are few enough for one request,
\* which the provider answers with a record for every key
PipeQuote ==
    /\ fpc = "quote"
    /\ LET code_map == code_map_of(routable_of(wanted_of(wanted_codes)))
       IN  \E tencent_codes \in Perms(DOMAIN code_map) :
               quote' = [status |-> "done", calls |-> 1, arg |-> wanted_codes,
                         a_changes |-> process_chunk(Respond("ok", tencent_codes),
                                                     code_map, NoMaps).change_map]
    /\ fpc' = "value"
    /\ UNCHANGED <<funds_list, future, portfolio_map, wanted_codes, results,
                   valVars, normVars, batchVars, quarterVars, storeVars>>

\* lines 820-826
PipeValuate ==
    /\ fpc = "value"
    /\ a_changes' = quote.a_changes
    /\ portfolio' = top_holdings
    /\ result' = calculate_fund_valuation(FundCode, FundName, quote.a_changes, top_holdings,
                                          df_nav, today)
    /\ vpc' = "returned"
    /\ fpc' = "done"
    /\ UNCHANGED <<df_nav, today, funds_list, future, portfolio_map, wanted_codes, quote,
                   results, normVars, batchVars, quarterVars, storeVars>>

PipeNext == TableNext \/ PipeCollect \/ PipeQuote \/ PipeValuate

PipeSpec == PipeInit /\ [][PipeNext]_vars

HasRoute(k) == to_tencent_code(normalize_stock_code(top_holdings[k].code)) # <<>>

\* C29: for every holding returned that has a venue route, the code asked
\* for, the key its quote is stored under and the key the estimate looks up
\* are one string: the quote stored for the holding is the change the
\* estimate shows for it, and no quote is stored under another key.
C29_OneKeyThroughThePipeline ==
    fpc = "done" =>
        /\ DOMAIN a_changes \subseteq wanted_codes
        /\ \A k \in 1..Len(top_holdings) :
               HasRoute(k) =>
                   LET s_code == normalize_stock_code(top_holdings[k].code)
                   IN  /\ s_code \in wanted_codes
                       /\ s_code \in DOMAIN a_changes
                       /\ result.portfolio[k].change = a_changes[s_code]

C29_Witness ==
    /\ fpc = "done"
    /\ \E k \in 1..Len(top_holdings) :
           /\ HasRoute(k)
           /\ StartsWithHk(df[df_latest[k]].code)
           /\ result.portfolio[k].change = RInt(-2)

\* C30: a price map or a change map of the cache that is not empty is
\* never replaced by an empty one, whatever the calls and their requests do.
C30_PopulatedCacheStaysPopulated ==
    [][/\ ~IsEmptyMap(LAST_A_STOCK_CACHE.price_map)
             => ~IsEmptyMap(LAST_A_STOCK_CACHE'.price_map)
       /\ ~IsEmptyMap(LAST_A_STOCK_CACHE.change_map)
             => ~IsEmptyMap(LAST_A_STOCK_CACHE'.change_map)]_vars

\* A call whose requests brought nothing is over, and the cache populated
\* before it still holds its maps.
C30_Witness ==
    \E t \in Threads :
        /\ WentToProvider(t)
        /\ NothingUsable(t)
        /\ ~CacheWasEmpty(t)
        /\ ~IsEmptyMap(LAST_A_STOCK_CACHE.price_map)
        /\ ~IsEmptyMap(LAST_A_STOCK_CACHE.change_map)

====
